---- MODULE Spec2Model ----
(***************************************************************************)
(* A model of cpfspd, the C library for pfspd video files: the header      *)
(* held in memory (pT_header), the file on disk, and the operations that   *)
(* create, modify, write, read and rewrite the header and that read and    *)
(* write images, components and auxiliary data.                            *)
(*                                                                         *)
(* Statuses, colour formats and component codes keep the names of the C    *)
(* enumerators and macros and are written as strings.                      *)
(***************************************************************************)
EXTENDS Integers, Sequences, FiniteSets, TLC

VARIABLES
    header,     \* the pT_header the application holds
    disk,       \* the files on disk, by name
    p_files,    \* the library's administration of each file it has open
    op,         \* the library call performed last and its arguments
    status,     \* the pT_status that call returned
    result,     \* the number that call returned or stored for the caller
    accesses,   \* the file accesses that call performed, in order
    membuf,     \* the samples that call stored in the caller's buffers
    budget      \* the number of library calls the application still makes

vars == <<header, disk, p_files, op, status, result, accesses, membuf, budget>>

----------------------------------------------------------------------------
(* cpfspd.h: sizes of the header records and of their fields *)

P_NUM_GLOB_RECS == 2
P_NUM_COMP_RECS == 2
P_SDESCRIPTION == 2048
P_BYTES_REC == 512
P_SAUX_HDR == 16384
P_PFSPD_MAX_COMP == 128
P_MIN_BYTES_PER_REC == 64

MIN(x, y) == IF x < y THEN x ELSE y
MAX(x, y) == IF x > y THEN x ELSE y

----------------------------------------------------------------------------
(* Frequencies are C doubles.  The model keeps a frequency as a whole part *)
(* and a fraction counted in units of 10^-7, one decimal more than the     *)
(* header record holds; sign is -1 for a negative value.                   *)

FrqUnits == 10 * 1000 * 1000

Frq(whole, frac) == [sign |-> 1, whole |-> whole, frac |-> frac]
FrqNeg(whole, frac) == [sign |-> -1, whole |-> whole, frac |-> frac]
FrqZero == Frq(0, 0)
FrqIsNegative(x) == x.sign < 0 /\ (x.whole # 0 \/ x.frac # 0)

\* x * 2.0
FrqDouble(x) ==
    [sign |-> x.sign,
     whole |-> 2 * x.whole + (2 * x.frac) \div FrqUnits,
     frac |-> (2 * x.frac) % FrqUnits]

\* x / 2.0; the last binary digit of the model's fraction is dropped
FrqHalf(x) ==
    [sign |-> x.sign,
     whole |-> x.whole \div 2,
     frac |-> ((x.whole % 2) * FrqUnits + x.frac) \div 2]

----------------------------------------------------------------------------
(* cpfspd_hdr.c: the predefined components of the standard colour formats *)

DefComp(name, pix_ss, lin_ss, mplex) ==
    [name |-> name, pix_ss |-> pix_ss, lin_ss |-> lin_ss, mplex |-> mplex]

p_default_formats ==
    << [format |-> "P_NO_COLOR",
        comp |-> << DefComp("Y    ", 1, 1, 1) >>],
       [format |-> "P_COLOR_422",
        comp |-> << DefComp("Y    ", 1, 1, 1), DefComp("U/V  ", 2, 1, 2) >>],
       [format |-> "P_COLOR_420",
        comp |-> << DefComp("Y    ", 1, 1, 1), DefComp("U/V  ", 2, 2, 2) >>],
       [format |-> "P_COLOR_444_PL",
        comp |-> << DefComp("Y    ", 1, 1, 1), DefComp("U    ", 1, 1, 1),
                    DefComp("V    ", 1, 1, 1) >>],
       [format |-> "P_COLOR_422_PL",
        comp |-> << DefComp("Y    ", 1, 1, 1), DefComp("U    ", 2, 1, 1),
                    DefComp("V    ", 2, 1, 1) >>],
       [format |-> "P_COLOR_420_PL",
        comp |-> << DefComp("Y    ", 1, 1, 1), DefComp("U    ", 2, 2, 1),
                    DefComp("V    ", 2, 2, 1) >>],
       [format |-> "P_COLOR_RGB",
        comp |-> << DefComp("R    ", 1, 1, 1), DefComp("G    ", 1, 1, 1),
                    DefComp("B    ", 1, 1, 1) >>],
       [format |-> "P_COLOR_XYZ",
        comp |-> << DefComp("X    ", 1, 1, 1), DefComp("Y    ", 1, 1, 1),
                    DefComp("Z    ", 1, 1, 1) >>],
       [format |-> "P_STREAM",
        comp |-> << DefComp("S    ", 1, 1, 1) >>] >>

Colors == { p_default_formats[f].format : f \in DOMAIN p_default_formats }

(* the file data formats and the data format string of each *)
FormatStr(file_data_fmt) ==
    CASE file_data_fmt = "P_8_BIT_FILE"   -> "B*8 "
      [] file_data_fmt = "P_10_BIT_FILE"  -> "B*10"
      [] file_data_fmt = "P_12_BIT_FILE"  -> "B*12"
      [] file_data_fmt = "P_14_BIT_FILE"  -> "B*14"
      [] file_data_fmt = "P_16_BIT_FILE"  -> "I*2 "
      [] file_data_fmt = "P_16_REAL_FILE" -> "R*2 "
      [] OTHER -> " "

FileDataFormats ==
    {"P_8_BIT_FILE", "P_10_BIT_FILE", "P_12_BIT_FILE", "P_14_BIT_FILE",
     "P_16_BIT_FILE", "P_16_REAL_FILE"}

----------------------------------------------------------------------------
(* cpfspd_mod.c: components *)

\* the header after p_mod_add_comp; the call returns the old nr_compon,
\* or -1 when the component table is full
p_mod_add_comp(h) ==
    IF h.nr_compon < P_PFSPD_MAX_COMP
    THEN [h EXCEPT
            !.nr_compon = h.nr_compon + 1,
            !.comp = Append(h.comp,
                [lin_image |-> h.act_lines \div h.interlace,
                 pix_line |-> h.act_pixel,
                 data_fmt |-> "B*8 ",
                 tem_sbsmpl |-> 1, lin_sbsmpl |-> 1, pix_sbsmpl |-> 1,
                 tem_phshft |-> 0, lin_phshft |-> 0, pix_phshft |-> 0,
                 com_code |-> "void "]),
            !.modified = 1]
    ELSE h

p_mod_add_comp_result(h) ==
    IF h.nr_compon < P_PFSPD_MAX_COMP THEN h.nr_compon ELSE -1

\* the status p_mod_set_comp_2 returns; comp counts from 0
p_mod_set_comp_2_status(h, comp, file_data_fmt, pix_subsample, line_subsample) ==
    IF file_data_fmt \notin FileDataFormats THEN "P_ILLEGAL_FILE_DATA_FORMAT"
    ELSE IF h.act_pixel % pix_subsample # 0 \/ h.act_lines % line_subsample # 0
    THEN "P_WRONG_SUBSAMPLE_FACTOR"
    ELSE IF comp < 0 \/ comp >= h.nr_compon THEN "P_INVALID_COMPONENT"
    ELSE "P_OK"

p_mod_set_comp_2(h, comp, name, file_data_fmt, pix_subsample, line_subsample, multiplex_factor) ==
    IF p_mod_set_comp_2_status(h, comp, file_data_fmt, pix_subsample,
                               line_subsample) = "P_OK"
    THEN [h EXCEPT
            !.comp[comp + 1] =
                [lin_image |-> (h.act_lines \div line_subsample) \div h.interlace,
                 pix_line |-> (multiplex_factor * h.act_pixel) \div pix_subsample,
                 data_fmt |-> FormatStr(file_data_fmt),
                 tem_sbsmpl |-> 1, lin_sbsmpl |-> line_subsample,
                 pix_sbsmpl |-> pix_subsample,
                 tem_phshft |-> 0, lin_phshft |-> 0, pix_phshft |-> 0,
                 com_code |-> name],
            !.modified = 1]
    ELSE [h EXCEPT !.modified = 1]

----------------------------------------------------------------------------
(* The bytes of an array of the header, kept as runs of equal bytes: a run *)
(* is a byte and the number of times it stands, and the zero bytes the     *)
(* array ends with are left out, so that an array of zero bytes is << >>.  *)

\* the byte that ends a string
NUL == "NUL"
\* the sentinel after the last auxiliary header
P_AUX_LAST == << " ", " ", " ", " ", " ", " ", " ", "8" >>

Run(b, n) == [b |-> b, n |-> n]

\* the runs of a sequence of bytes
RunsOf(cs) == [i \in 1..Len(cs) |-> Run(cs[i], 1)]

\* the runs of a string with the byte that ends it
StringRuns(cs) == RunsOf(cs \o << NUL >>)

\* runs a before runs b, the last of a and the first of b made one when
\* they are of one byte
JoinRuns(a, b) ==
    IF a = << >> THEN b
    ELSE IF b = << >> THEN a
    ELSE IF a[Len(a)].b = b[1].b
    THEN SubSeq(a, 1, Len(a) - 1) \o << Run(b[1].b, a[Len(a)].n + b[1].n) >>
         \o Tail(b)
    ELSE a \o b

RECURSIVE JoinRange(_, _, _)
\* the runs lo .. hi of r with no two runs of one byte in a row and no
\* empty run
JoinRange(r, lo, hi) ==
    IF lo > hi THEN << >>
    ELSE IF lo = hi THEN (IF r[lo].n = 0 THEN << >> ELSE << r[lo] >>)
    ELSE JoinRuns(JoinRange(r, lo, (lo + hi) \div 2),
                  JoinRange(r, (lo + hi) \div 2 + 1, hi))

\* runs without the zero bytes at their end
WithoutZeroEnd(r) ==
    IF r # << >> /\ r[Len(r)].b = NUL THEN SubSeq(r, 1, Len(r) - 1) ELSE r

\* the one way to write an array as runs
Canonical(r) == WithoutZeroEnd(JoinRange(r, 1, Len(r)))

RECURSIVE RunEnds(_, _, _, _)
RECURSIVE RunEndsAfter(_, _, _, _)
\* the offsets after the runs lo .. hi of r, the first of them at base
RunEnds(r, lo, hi, base) ==
    IF lo > hi THEN << >>
    ELSE IF lo = hi THEN << base + r[lo].n >>
    ELSE RunEndsAfter(r, (lo + hi) \div 2, hi,
                      RunEnds(r, lo, (lo + hi) \div 2, base))
RunEndsAfter(r, mid, hi, left) ==
    left \o RunEnds(r, mid + 1, hi, left[Len(left)])

\* the offsets after each run of r
Ends(r) == RunEnds(r, 1, Len(r), 0)

\* the number of bytes of runs
RunsSize(r) == IF r = << >> THEN 0 ELSE Ends(r)[Len(r)]

\* the first n bytes of the runs r that end at the offsets e, with zero
\* bytes after them
TakeRuns(r, e, n) ==
    [i \in 1..Cardinality({j \in 1..Len(r) : e[j] - r[j].n < n}) |->
        Run(r[i].b, MIN(e[i], n) - (e[i] - r[i].n))]
    \o (IF n > RunsSize(r) THEN << Run(NUL, n - RunsSize(r)) >> ELSE << >>)

\* the first n bytes of an array
TakeBytes(r, n) == IF n <= 0 THEN << >> ELSE TakeRuns(r, Ends(r), n)

\* the runs r, that end at the offsets e, without their first skip runs,
\* from byte n on
DropRuns(r, e, n, skip) ==
    [i \in 1..(Len(r) - skip) |->
        Run(r[i + skip].b,
            e[i + skip] - MAX(e[i + skip] - r[i + skip].n, n))]

\* the runs r from byte n on
DropEnds(r, e, n) ==
    DropRuns(r, e, n, Cardinality({j \in 1..Len(r) : e[j] <= n}))

\* an array from byte n on
DropBytes(r, n) == IF n <= 0 THEN r ELSE DropEnds(r, Ends(r), n)

\* the array with the bytes from offset on replaced by those of runs
StoreBytes(r, offset, runs) ==
    Canonical(TakeBytes(r, offset) \o runs
              \o DropBytes(r, offset + RunsSize(runs)))

\* byte pos of the runs r that end at the offsets e
ByteOfRuns(r, e, pos) ==
    IF \E i \in 1..Len(r) : e[i] - r[i].n <= pos /\ pos < e[i]
    THEN r[CHOOSE i \in 1..Len(r) : e[i] - r[i].n <= pos /\ pos < e[i]].b
    ELSE NUL

\* the len bytes of the runs r, that end at the offsets e, from offset on
BytesOfRuns(r, e, offset, len) ==
    [k \in 1..len |-> ByteOfRuns(r, e, offset + k - 1)]

\* the len bytes of an array from offset on
BytesAt(r, offset, len) == BytesOfRuns(r, Ends(r), offset, len)

\* the place after the last byte of an array that is not zero
UsedBytes(r) == RunsSize(r)

\* strcpy of the sentinel to the start of the array
NoAuxHeaders(aux_hdrs) == StoreBytes(aux_hdrs, 0, StringRuns(P_AUX_LAST))

----------------------------------------------------------------------------
(* cpfspd_hdr.c: creating a header *)

\* a pT_header after memset (header, 0, sizeof(pT_header))
ZeroHeader ==
    [nr_images |-> 0, nr_compon |-> 0, nr_fd_recs |-> 0,
     nr_aux_data_recs |-> 0, appl_type |-> "", bytes_rec |-> 0,
     little_endian |-> 0, nr_aux_hdr_recs |-> 0,
     ima_freq |-> FrqZero, lin_freq |-> FrqZero, pix_freq |-> FrqZero,
     act_lines |-> 0, act_pixel |-> 0, interlace |-> 0,
     h_pp_size |-> 0, v_pp_size |-> 0,
     comp |-> << >>, description |-> [text |-> "", len |-> 0],
     aux_hdrs |-> << >>,
     disable_hdr_checks |-> 0, modified |-> 0]

RECURSIVE AddDefaultComps(_, _, _)
\* the loop of p_create_free_header over the components of a default
\* format; it stops at the first component p_mod_set_comp_2 rejects
AddDefaultComps(h, defs, i) ==
    IF i > Len(defs) THEN [status |-> "P_OK", header |-> h]
    ELSE LET comp == p_mod_add_comp_result(h)
             h1 == p_mod_add_comp(h)
             st == p_mod_set_comp_2_status(h1, comp, "P_8_BIT_FILE",
                                           defs[i].pix_ss, defs[i].lin_ss)
             h2 == p_mod_set_comp_2(h1, comp, defs[i].name, "P_8_BIT_FILE",
                                    defs[i].pix_ss, defs[i].lin_ss,
                                    defs[i].mplex)
         IN IF st = "P_OK" THEN AddDefaultComps(h2, defs, i + 1)
            ELSE [status |-> st, header |-> h2]

p_create_free_header(color, ima_freq, lin_freq, pix_freq, act_lines, act_pixel, interlace_factor, h_ratio, v_ratio) ==
    IF color \notin Colors
    THEN [status |-> "P_ILLEGAL_COLOR_FORMAT", header |-> ZeroHeader]
    ELSE LET f == CHOOSE k \in DOMAIN p_default_formats :
                      p_default_formats[k].format = color
             h0 == [ZeroHeader EXCEPT
                      !.nr_fd_recs =
                          (P_SDESCRIPTION + P_BYTES_REC - 1) \div P_BYTES_REC
                          + (P_SAUX_HDR + P_BYTES_REC - 1) \div P_BYTES_REC,
                      !.appl_type = "VIDEO                    ",
                      !.bytes_rec = P_BYTES_REC,
                      !.nr_aux_hdr_recs =
                          (P_SAUX_HDR + P_BYTES_REC - 1) \div P_BYTES_REC,
                      !.ima_freq = ima_freq,
                      !.lin_freq = lin_freq,
                      !.pix_freq = pix_freq,
                      !.act_lines = act_lines,
                      !.act_pixel = act_pixel,
                      !.interlace = interlace_factor,
                      !.h_pp_size = h_ratio,
                      !.v_pp_size = v_ratio,
                      !.aux_hdrs = NoAuxHeaders(@)]
         IN AddDefaultComps(h0, p_default_formats[f].comp, 1)

RECURSIVE lcd_loop(_, _)
lcd_loop(x, y) ==
    IF x * y = 0 THEN x + y
    ELSE IF x > y THEN lcd_loop(x % y, y) ELSE lcd_loop(x, y % x)

\* largest common divider, 1 when an argument is not positive
lcd(x, y) == IF x <= 0 \/ y <= 0 THEN 1 ELSE lcd_loop(x, y)

\* the image frequency of each pT_freq
StdImaFreq(image_freq) ==
    CASE image_freq = "P_50HZ"      -> Frq(50, 0)
      [] image_freq = "P_25HZ"      -> Frq(25, 0)
      [] image_freq = "P_60HZ"      -> Frq(59, 9400000)
      [] image_freq = "P_24HZ"      -> Frq(23, 9760000)
      [] image_freq = "P_30HZ"      -> Frq(29, 9700000)
      [] image_freq = "P_REAL_60HZ" -> Frq(60, 0)
      [] image_freq = "P_REAL_24HZ" -> Frq(24, 0)
      [] image_freq = "P_REAL_30HZ" -> Frq(30, 0)

ImageFreqs == {"P_50HZ", "P_25HZ", "P_60HZ", "P_24HZ", "P_30HZ",
               "P_REAL_60HZ", "P_REAL_24HZ", "P_REAL_30HZ"}
ImageSizes == {"P_QCIF", "P_CIF", "P_SD", "P_HDp", "P_HDi"}

Is50Hz(image_freq) == image_freq \in {"P_50HZ", "P_25HZ"}
Is5994Hz(image_freq) == image_freq \in {"P_60HZ", "P_24HZ", "P_30HZ"}

\* the line frequency and the active lines of an interlaced sequence;
\* << >> when the size is not defined at this frequency
StdLines(image_freq, image_size) ==
    IF Is50Hz(image_freq)
    THEN CASE image_size = "P_QCIF" -> << Frq(15, 6250000), 144 >>
           [] image_size = "P_CIF"  -> << Frq(15, 6250000), 288 >>
           [] image_size = "P_SD"   -> << Frq(15, 6250000), 576 >>
           [] image_size = "P_HDi"  -> << Frq(31, 2500000), 1152 >>
           [] OTHER -> << >>
    ELSE LET sd == IF Is5994Hz(image_freq) THEN Frq(15, 7342640)
                                           ELSE Frq(15, 7500000)
         IN CASE image_size = "P_QCIF" -> << sd, 120 >>
              [] image_size = "P_CIF"  -> << sd, 240 >>
              [] image_size = "P_SD"   -> << sd, 480 >>
              [] image_size = "P_HDp"  ->
                    << IF Is5994Hz(image_freq) THEN Frq(22, 4775000)
                                               ELSE Frq(22, 5000000), 720 >>
              [] image_size = "P_HDi"  ->
                    << IF Is5994Hz(image_freq) THEN Frq(33, 7162500)
                                               ELSE Frq(33, 7500000), 1080 >>
              [] OTHER -> << >>

\* the pixel frequency and the active pixels per line;
\* << >> when pixels_per_line is not defined for the size
StdPixels(image_freq, image_size, pixels_per_line) ==
    LET ppl == pixels_per_line IN
    CASE image_size = "P_QCIF" ->
            CASE ppl \in {0, 176} -> << Frq(13, 5000000), 176 >>
              [] ppl = 180        -> << Frq(13, 5000000), 180 >>
              [] OTHER -> << >>
      [] image_size = "P_CIF" ->
            CASE ppl \in {0, 352} -> << Frq(13, 5000000), 352 >>
              [] ppl = 360        -> << Frq(13, 5000000), 360 >>
              [] OTHER -> << >>
      [] image_size = "P_SD" ->
            CASE ppl = 512        -> << Frq(9, 6000000), 512 >>
              [] ppl = 640        -> << Frq(12, 0), 640 >>
              [] ppl = 704        -> << Frq(13, 5000000), 704 >>
              [] ppl \in {0, 720} -> << Frq(13, 5000000), 720 >>
              [] ppl = 848        -> << Frq(16, 0), 848 >>
              [] ppl = 960        -> << Frq(18, 0), 960 >>
              [] ppl = 1024       -> << Frq(19, 2000000), 1024 >>
              [] ppl = 1280       -> << Frq(24, 0), 1280 >>
              [] ppl = 1440       -> << Frq(27, 0), 1440 >>
              [] OTHER -> << >>
      [] image_size = "P_HDp" ->
            CASE ppl = 960         -> << Frq(27, 8437500), 960 >>
              [] ppl = 1024        -> << Frq(29, 7000000), 1024 >>
              [] ppl \in {0, 1280} -> << Frq(37, 1250000), 1280 >>
              [] ppl = 1440        -> << Frq(41, 7656250), 1440 >>
              [] ppl = 1920        -> << Frq(55, 6875000), 1920 >>
              [] OTHER -> << >>
      [] image_size = "P_HDi" /\ Is50Hz(image_freq) ->
            CASE ppl = 960         -> << Frq(36, 0), 960 >>
              [] ppl = 1024        -> << Frq(38, 4000000), 1024 >>
              [] ppl = 1280        -> << Frq(48, 0), 1280 >>
              [] ppl \in {0, 1440} -> << Frq(54, 0), 1440 >>
              [] ppl = 1920        -> << Frq(72, 0), 1920 >>
              [] OTHER -> << >>
      [] image_size = "P_HDi" /\ ~Is50Hz(image_freq) ->
            CASE ppl = 960         -> << Frq(37, 1250000), 960 >>
              [] ppl = 1024        -> << Frq(39, 6000000), 1024 >>
              [] ppl = 1280        -> << Frq(49, 5000000), 1280 >>
              [] ppl = 1440        -> << Frq(55, 6875000), 1440 >>
              [] ppl \in {0, 1920} -> << Frq(74, 2500000), 1920 >>
              [] OTHER -> << >>
      [] OTHER -> << >>

\* the aspect ratio P_UNKNOWN_ASPECT_RATIO stands for
DefaultRatio(image_size, pixels_per_line) ==
    CASE image_size = "P_SD"   -> IF pixels_per_line > 720 THEN "P_16_9" ELSE "P_4_3"
      [] image_size = "P_CIF"  -> IF pixels_per_line > 352 THEN "P_16_9" ELSE "P_4_3"
      [] image_size = "P_QCIF" -> IF pixels_per_line > 176 THEN "P_16_9" ELSE "P_4_3"
      [] image_size \in {"P_HDp", "P_HDi"} -> "P_16_9"
      [] OTHER -> "P_UNKNOWN_ASPECT_RATIO"

\* h_ratio and v_ratio of an aspect ratio; << >> for an illegal one
RatioValues(ratio, act_pixel, act_lines) ==
    CASE ratio = "P_4_3"  -> << 4, 3 >>
      [] ratio = "P_16_9" -> << 16, 9 >>
      [] ratio = "P_AS_WH" ->
            << act_pixel \div lcd(act_pixel, act_lines),
               act_lines \div lcd(act_pixel, act_lines) >>
      [] OTHER -> << >>

AspectRatios == {"P_4_3", "P_16_9", "P_AS_WH", "P_UNKNOWN_ASPECT_RATIO"}

\* the values p_set_header_values computes, with its status
p_set_header_values(image_freq, image_size, pixels_per_line, progressive, ratio) ==
    LET lines == StdLines(image_freq, image_size)
        pixels == StdPixels(image_freq, image_size, pixels_per_line)
        film == image_freq \in {"P_25HZ", "P_24HZ", "P_30HZ",
                                "P_REAL_24HZ", "P_REAL_30HZ"}
        lin0 == IF film THEN FrqZero ELSE lines[1]
        pix0 == IF film THEN FrqZero ELSE pixels[1]
        rat == IF ratio = "P_UNKNOWN_ASPECT_RATIO"
               THEN DefaultRatio(image_size, pixels_per_line) ELSE ratio
        hv == RatioValues(rat, pixels[2], lines[2])
    IN  IF image_freq \notin ImageFreqs
        THEN [status |-> "P_ILLEGAL_IMAGE_FREQUENCY"]
        ELSE IF lines = << >> THEN [status |-> "P_ILLEGAL_IMAGE_SIZE"]
        ELSE IF pixels = << >> THEN [status |-> "P_ILLEGAL_NUM_OF_PIX_PER_LINE"]
        ELSE IF hv = << >> THEN [status |-> "P_ILLEGAL_ASPECT_RATIO"]
        ELSE [status |-> "P_OK",
              ima_freq |-> StdImaFreq(image_freq),
              lin_freq |-> IF progressive # 0 THEN FrqDouble(lin0) ELSE lin0,
              pix_freq |-> IF progressive # 0 THEN FrqDouble(pix0) ELSE pix0,
              act_lines |-> lines[2],
              act_pixel |-> pixels[2],
              interlace_factor |-> IF progressive # 0 THEN 1 ELSE 2,
              h_ratio |-> hv[1],
              v_ratio |-> hv[2]]

\* the values p_set_stream_header_values computes, with its status
p_set_stream_header_values(image_freq, image_size, pixels_per_line, ratio) ==
    LET lines == CASE image_freq = "P_25HZ" /\ image_size = "P_SD" ->
                        << Frq(15, 6250000), 625 >>
                   [] image_freq = "P_30HZ" /\ image_size = "P_SD" ->
                        << Frq(15, 7342640), 525 >>
                   [] OTHER -> << >>
        ppl == pixels_per_line
        pixels == CASE image_freq = "P_25HZ" /\ ppl \in {0, 864} ->
                        << Frq(13, 5000000), 864 >>
                    [] image_freq = "P_25HZ" /\ ppl = 1024 -> << Frq(16, 0), 1024 >>
                    [] image_freq = "P_25HZ" /\ ppl = 1152 -> << Frq(18, 0), 1152 >>
                    [] image_freq = "P_30HZ" /\ ppl \in {0, 858} ->
                        << Frq(13, 5000000), 858 >>
                    [] image_freq = "P_30HZ" /\ ppl = 1144 -> << Frq(18, 0), 1144 >>
                    [] OTHER -> << >>
        rat == IF ratio = "P_UNKNOWN_ASPECT_RATIO"
               THEN (IF ppl > 720 THEN "P_16_9" ELSE "P_4_3") ELSE ratio
        hv == RatioValues(rat, pixels[2], lines[2])
    IN  IF image_freq \notin {"P_25HZ", "P_30HZ"}
        THEN [status |-> "P_ILLEGAL_IMAGE_FREQUENCY"]
        ELSE IF lines = << >> THEN [status |-> "P_ILLEGAL_IMAGE_SIZE"]
        ELSE IF pixels = << >> THEN [status |-> "P_ILLEGAL_NUM_OF_PIX_PER_LINE"]
        ELSE IF hv = << >> THEN [status |-> "P_ILLEGAL_ASPECT_RATIO"]
        ELSE [status |-> "P_OK",
              ima_freq |-> StdImaFreq(image_freq),
              lin_freq |-> lines[1],
              pix_freq |-> pixels[1],
              act_lines |-> lines[2],
              act_pixel |-> pixels[2],
              interlace_factor |-> 1,
              h_ratio |-> hv[1],
              v_ratio |-> hv[2]]

\* the status p_create_ext_header returns and the header it leaves; old is
\* the content of the header before the call, which stays in place when
\* the arguments are rejected
p_create_ext_header(old, color, image_freq, image_size, pixels_per_line, progressive, ratio) ==
    LET st0 == IF color = "P_STREAM" /\ progressive = 0
               THEN "P_ILLEGAL_FORMAT_INTERL_MODE"
               ELSE IF image_size = "P_HDi" /\ progressive = 1
               THEN "P_ILLEGAL_SIZE_PROGRESSIVE_MODE"
               ELSE IF image_size = "P_HDp" /\ progressive = 0
               THEN "P_ILLEGAL_SIZE_INTERLACED_MODE"
               ELSE IF image_size = "P_HDp" /\ Is50Hz(image_freq)
               THEN "P_ILLEGAL_SIZE_FREQUENCY"
               ELSE "P_OK"
        v == IF color = "P_STREAM"
             THEN p_set_stream_header_values(image_freq, image_size,
                                             pixels_per_line, ratio)
             ELSE p_set_header_values(image_freq, image_size,
                                      pixels_per_line, progressive, ratio)
        r == p_create_free_header(color, v.ima_freq, v.lin_freq, v.pix_freq,
                                  v.act_lines, v.act_pixel,
                                  v.interlace_factor, v.h_ratio, v.v_ratio)
    IN  IF st0 # "P_OK"
        THEN [status |-> st0, header |-> [old EXCEPT !.modified = 1]]
        ELSE IF v.status # "P_OK"
        THEN [status |-> v.status, header |-> [old EXCEPT !.modified = 1]]
        ELSE [status |-> r.status, header |-> [r.header EXCEPT !.modified = 1]]

----------------------------------------------------------------------------
(* cpfspd_hdr.c: checking a header *)

P_SNR_IMAGES == 7
P_SACT_LINES == 6
P_SACT_PIXEL == 6
P_SLIN_IMAGE == 6
P_SPIX_LINE == 6
P_SSBSMPL == 2
P_SPHSHFT == 2

RECURSIVE poor_mans_pow(_, _)
poor_mans_pow(x, y) == IF y = 0 THEN 1 ELSE x * poor_mans_pow(x, y - 1)

\* the largest decimal value that fits in a text field of s characters
MAX_DECIMAL(s) == poor_mans_pow(10, s) - 1

OutOf(v, s) == v < 0 \/ v > MAX_DECIMAL(s)

\* the status of one pass of the component loop of p_check_hdr_basic
CheckCompBasic(c) ==
    IF OutOf(c.pix_phshft, P_SPHSHFT) \/ OutOf(c.lin_phshft, P_SPHSHFT)
       \/ OutOf(c.tem_phshft, P_SPHSHFT) THEN "P_ILLEGAL_PHSHFT"
    ELSE IF OutOf(c.pix_sbsmpl, P_SSBSMPL) THEN "P_ILLEGAL_PIX_SBSMPL"
    ELSE IF OutOf(c.lin_sbsmpl, P_SSBSMPL) THEN "P_ILLEGAL_LIN_SBSMPL"
    ELSE IF c.tem_sbsmpl # 1 THEN "P_ILLEGAL_TEM_SBSMPL"
    ELSE IF OutOf(c.pix_line, P_SPIX_LINE) \/ OutOf(c.lin_image, P_SLIN_IMAGE)
    THEN "P_ILLEGAL_COMP_SIZE"
    ELSE "P_OK"

RECURSIVE CheckCompsBasic(_, _)
CheckCompsBasic(h, i) ==
    IF i > h.nr_compon THEN "P_OK"
    ELSE IF CheckCompBasic(h.comp[i]) # "P_OK" THEN CheckCompBasic(h.comp[i])
    ELSE CheckCompsBasic(h, i + 1)

p_check_hdr_basic(h) ==
    IF h.interlace < 0 \/ h.interlace > 2 THEN "P_ILLEGAL_INTERLACE"
    ELSE IF OutOf(h.act_pixel, P_SACT_PIXEL) \/ OutOf(h.act_lines, P_SACT_LINES)
    THEN "P_ILLEGAL_IMAGE_SIZE"
    ELSE IF h.nr_aux_hdr_recs * h.bytes_rec > P_SAUX_HDR
    THEN "P_EXCEEDING_AUXILIARY_HDR_SIZE"
    ELSE IF h.nr_compon < 0 \/ h.nr_compon > P_PFSPD_MAX_COMP
    THEN "P_TOO_MANY_COMPONENTS"
    ELSE IF OutOf(h.nr_images, P_SNR_IMAGES) THEN "P_TOO_MANY_IMAGES"
    ELSE CheckCompsBasic(h, 1)

\* whether the first components of the header are those of default format f
MatchesFormat(h, f) ==
    LET d == p_default_formats[f].comp IN
    /\ h.nr_compon >= Len(d)
    /\ \A i \in DOMAIN d :
          /\ h.comp[i].com_code = d[i].name
          /\ h.comp[i].pix_sbsmpl = d[i].pix_ss
          /\ h.comp[i].lin_sbsmpl = d[i].lin_ss
          /\ h.comp[i].pix_line * h.comp[i].pix_sbsmpl = h.act_pixel * d[i].mplex

\* the first entry of p_default_formats that matches
FirstMatchingFormat(h) ==
    LET m == { f \in DOMAIN p_default_formats : MatchesFormat(h, f) } IN
    IF m = {} THEN "P_UNKNOWN_COLOR"
    ELSE p_default_formats[CHOOSE f \in m : \A g \in m : f <= g].format

\* the colour format p_check_color_format finds: the last entry of
\* p_default_formats that matches, P_UNKNOWN_COLOR when none does
p_check_color_format(h) ==
    LET m == { f \in DOMAIN p_default_formats : MatchesFormat(h, f) } IN
    IF m = {} THEN "P_UNKNOWN_COLOR"
    ELSE p_default_formats[CHOOSE f \in m : \A g \in m : g <= f].format

p_check_color_format_status(h) ==
    IF p_check_color_format(h) = "P_UNKNOWN_COLOR"
    THEN "P_ILLEGAL_COLOR_FORMAT" ELSE "P_OK"

\* the number of components of a colour format
NrComponOf(color_format) ==
    CASE color_format \in {"P_NO_COLOR", "P_STREAM"} -> 1
      [] color_format \in {"P_COLOR_422", "P_COLOR_420"} -> 2
      [] color_format \in {"P_COLOR_444_PL", "P_COLOR_422_PL",
                           "P_COLOR_420_PL", "P_COLOR_RGB", "P_COLOR_XYZ"} -> 3
      [] OTHER -> 0

FullSize(h, c) ==
    c.pix_line = h.act_pixel /\ c.lin_image * h.interlace = h.act_lines

ChromaSize(h, c, mplex) ==
    /\ c.pix_line * c.pix_sbsmpl = h.act_pixel * mplex
    /\ c.lin_image * c.lin_sbsmpl * h.interlace = h.act_lines

\* the status of the model for a call that divides by zero: the behaviour
\* of the call is undefined, the actions leave such calls out
Undefined == "undefined"

\* an extra component that is not padding; the code divides by act_pixel
ExtraSizeOk(h, c) ==
    LET multiplex == (c.pix_line * c.pix_sbsmpl) \div h.act_pixel IN
    /\ c.pix_line * c.pix_sbsmpl = h.act_pixel * multiplex
    /\ c.lin_image * c.lin_sbsmpl * h.interlace = h.act_lines

p_check_component_sizes(h, color_format) ==
    LET first ==
            CASE color_format \in {"P_NO_COLOR", "P_COLOR_422", "P_COLOR_420",
                    "P_COLOR_444_PL", "P_COLOR_422_PL", "P_COLOR_420_PL"} ->
                    IF FullSize(h, h.comp[1]) THEN "P_OK"
                    ELSE "P_WRONG_LUM_COMP_SIZE"
              [] color_format = "P_STREAM" ->
                    IF FullSize(h, h.comp[1]) THEN "P_OK"
                    ELSE "P_WRONG_STREAM_COMP_SIZE"
              [] color_format = "P_COLOR_RGB" ->
                    IF \A i \in 1..3 : FullSize(h, h.comp[i]) THEN "P_OK"
                    ELSE "P_WRONG_RGB_COMP_SIZE"
              [] color_format = "P_COLOR_XYZ" ->
                    IF \A i \in 1..3 : FullSize(h, h.comp[i]) THEN "P_OK"
                    ELSE "P_WRONG_XYZ_COMP_SIZE"
              [] OTHER -> "P_ILLEGAL_COLOR_FORMAT"
        chroma ==
            CASE color_format \in {"P_COLOR_422", "P_COLOR_420"} ->
                    IF ChromaSize(h, h.comp[2], 2) THEN "P_OK"
                    ELSE "P_WRONG_CHR_COMP_SIZE"
              [] color_format \in {"P_COLOR_444_PL", "P_COLOR_422_PL",
                                   "P_COLOR_420_PL"} ->
                    IF ChromaSize(h, h.comp[2], 1) /\ ChromaSize(h, h.comp[3], 1)
                    THEN "P_OK" ELSE "P_WRONG_CHR_COMP_SIZE"
              [] OTHER -> "P_OK"
        others == (NrComponOf(color_format) + 1)..h.nr_compon
        extra ==
            IF h.act_pixel = 0 /\ \E i \in others : h.comp[i].com_code # "P    "
            THEN Undefined
            ELSE IF \A i \in others :
                  h.comp[i].com_code = "P    " \/ ExtraSizeOk(h, h.comp[i])
            THEN "P_OK" ELSE "P_WRONG_EXTRA_COMP_SIZE"
    IN  IF first # "P_OK" THEN first
        ELSE IF chroma # "P_OK" THEN chroma
        ELSE extra

\* the pT_data_fmt of a data format string
DataFmtOf(data_fmt) ==
    CASE data_fmt = "B*8 " -> "P_8_BIT_FILE"
      [] data_fmt = "B*10" -> "P_10_BIT_FILE"
      [] data_fmt = "B*12" -> "P_12_BIT_FILE"
      [] data_fmt = "B*14" -> "P_14_BIT_FILE"
      [] data_fmt = "I*2 " -> "P_16_BIT_FILE"
      [] data_fmt = "R*2 " -> "P_16_REAL_FILE"
      [] OTHER -> "P_UNKNOWN_DATA_FORMAT"

\* comp_nr counts from 0
p_get_comp_data_format(h, comp_nr) == DataFmtOf(h.comp[comp_nr + 1].data_fmt)

\* the file data format p_check_file_data_format finds: that of the first
\* component
p_check_file_data_format(h, color_format) ==
    IF NrComponOf(color_format) = 0 THEN "P_UNKNOWN_DATA_FORMAT"
    ELSE p_get_comp_data_format(h, 0)

p_check_file_data_format_status(h, color_format) ==
    LET fmt == p_check_file_data_format(h, color_format) IN
    IF fmt = "P_UNKNOWN_DATA_FORMAT"
       \/ (h.disable_hdr_checks = 0 /\ fmt = "P_16_REAL_FILE"
           /\ color_format \notin {"P_COLOR_RGB", "P_COLOR_XYZ"})
    THEN "P_ILLEGAL_FILE_DATA_FORMAT"
    ELSE IF \E i \in 1..(NrComponOf(color_format) - 1) :
                p_get_comp_data_format(h, i) # fmt
    THEN "P_FILE_DATA_FORMATS_NOT_EQUAL"
    ELSE "P_OK"

\* all the checks, whatever disable_hdr_checks is
AllChecksAlways(h) ==
    IF p_check_hdr_basic(h) # "P_OK" THEN p_check_hdr_basic(h)
    ELSE IF p_check_color_format_status(h) # "P_OK"
    THEN p_check_color_format_status(h)
    ELSE IF p_check_component_sizes(h, p_check_color_format(h)) # "P_OK"
    THEN p_check_component_sizes(h, p_check_color_format(h))
    ELSE p_check_file_data_format_status(h, p_check_color_format(h))

p_check_header(h) ==
    IF p_check_hdr_basic(h) # "P_OK" \/ h.disable_hdr_checks # 0
    THEN p_check_hdr_basic(h)
    ELSE IF p_check_color_format_status(h) # "P_OK"
    THEN p_check_color_format_status(h)
    ELSE IF p_check_component_sizes(h, p_check_color_format(h)) # "P_OK"
    THEN p_check_component_sizes(h, p_check_color_format(h))
    ELSE p_check_file_data_format_status(h, p_check_color_format(h))

----------------------------------------------------------------------------
(* cpfspd_get.c: information from the header *)

p_get_num_frames(h) == h.nr_images \div h.interlace
p_is_interlaced(h) == IF h.interlace = 2 THEN 1 ELSE 0
p_is_progressive(h) == IF h.interlace = 1 THEN 1 ELSE 0
p_get_frame_width(h) == h.act_pixel
p_get_frame_height(h) == h.act_lines
p_get_color_format(h) == p_check_color_format(h)

\* (int)(100.0 * a + 0.5)
P_TO_INT(a) == a.whole * 100 + (a.frac + 50000) \div 100000

p_get_image_freq(h) ==
    LET f == P_TO_INT(h.ima_freq) IN
    CASE f = 2398  -> "P_24HZ"
      [] f = 2400  -> "P_REAL_24HZ"
      [] f = 2500  -> "P_25HZ"
      [] f = 2997  -> "P_30HZ"
      [] f = 3000  -> "P_REAL_30HZ"
      [] f = 5000  -> "P_50HZ"
      [] f = 5994  -> "P_60HZ"
      [] f = 6000  -> "P_REAL_60HZ"
      [] f = 7500  -> "P_75HZ"
      [] f = 8991  -> "P_90HZ"
      [] f = 9000  -> "P_REAL_90HZ"
      [] f = 10000 -> "P_100HZ"
      [] f = 11988 -> "P_120HZ"
      [] f = 12000 -> "P_REAL_120HZ"
      [] OTHER -> "P_UNKNOWN_FREQ"

p_get_image_size(h) ==
    IF p_get_color_format(h) = "P_STREAM"
    THEN (IF h.act_lines \in {525, 625} THEN "P_SD" ELSE "P_UNKNOWN_SIZE")
    ELSE CASE h.act_lines \in {120, 144}   -> "P_QCIF"
           [] h.act_lines \in {240, 288}   -> "P_CIF"
           [] h.act_lines \in {480, 576}   -> "P_SD"
           [] h.act_lines \in {1080, 1152} -> "P_HDi"
           [] h.act_lines = 720            -> "P_HDp"
           [] OTHER -> "P_UNKNOWN_SIZE"

Abs(x) == IF x < 0 THEN -x ELSE x

\* |width / h_ratio - height / v_ratio| < 0.001 in doubles; a division by
\* zero gives an infinity or a NaN, for which the comparison is false
p_get_aspect_ratio(h) ==
    IF h.h_pp_size = 4 /\ h.v_pp_size = 3 THEN "P_4_3"
    ELSE IF h.h_pp_size = 16 /\ h.v_pp_size = 9 THEN "P_16_9"
    ELSE IF h.h_pp_size # 0 /\ h.v_pp_size # 0
            /\ 1000 * Abs(h.act_pixel * h.v_pp_size - h.act_lines * h.h_pp_size)
               < Abs(h.h_pp_size * h.v_pp_size)
    THEN "P_AS_WH"
    ELSE "P_UNKNOWN_ASPECT_RATIO"

p_get_file_data_format(h) ==
    IF p_check_file_data_format_status(h, p_get_color_format(h)) # "P_OK"
    THEN "P_UNKNOWN_DATA_FORMAT"
    ELSE p_check_file_data_format(h, p_get_color_format(h))

----------------------------------------------------------------------------
(* cpfspd_mod.c: modifying the header.  Each operator gives the status the *)
(* call returns and the header it leaves.                                  *)

Ret(st, h) == [status |-> st, header |-> h]

\* p_mod_num_frames without its last assignment
NumFramesOnly(h, num_frames) ==
    Ret("P_OK", [h EXCEPT !.nr_images = num_frames * h.interlace])

p_mod_num_frames(h, num_frames) ==
    Ret("P_OK", [h EXCEPT !.nr_images = num_frames * h.interlace,
                          !.modified = 1])

p_mod_file_data_format(h, file_data_fmt) ==
    LET color_format == p_get_color_format(h)
        st == IF NrComponOf(color_format) = 0 THEN "P_ILLEGAL_COLOR_FORMAT"
              ELSE IF file_data_fmt \notin FileDataFormats
                      \/ (file_data_fmt = "P_16_REAL_FILE"
                          /\ color_format \notin {"P_COLOR_RGB", "P_COLOR_XYZ"})
              THEN "P_ILLEGAL_FILE_DATA_FORMAT"
              ELSE "P_OK"
    IN  IF st = "P_OK"
        THEN Ret(st, [h EXCEPT
                !.comp = [i \in DOMAIN h.comp |->
                            IF i <= NrComponOf(color_format)
                            THEN [h.comp[i] EXCEPT
                                    !.data_fmt = FormatStr(file_data_fmt)]
                            ELSE h.comp[i]],
                !.modified = 1])
        ELSE Ret(st, [h EXCEPT !.modified = 1])

\* the tail p_mod_color_format, p_mod_defined_image_size and
\* p_mod_defined_image_freq share: the number of frames and the file data
\* format are set again in the header that was created anew
RestoreAfterCreate(r, num_frames, file_data_fmt) ==
    IF r.status # "P_OK" THEN Ret(r.status, [r.header EXCEPT !.modified = 1])
    ELSE p_mod_file_data_format(p_mod_num_frames(r.header, num_frames).header,
                                file_data_fmt)

p_mod_color_format(h, color_format) ==
    IF p_get_color_format(h) # color_format
    THEN RestoreAfterCreate(
            p_create_free_header(color_format, h.ima_freq, h.lin_freq,
                                 h.pix_freq, h.act_lines, h.act_pixel,
                                 h.interlace, h.h_pp_size, h.v_pp_size),
            p_get_num_frames(h), p_get_file_data_format(h))
    ELSE Ret("P_OK", [h EXCEPT !.modified = 1])

p_mod_aspect_ratio(h, ratio) ==
    LET hv == RatioValues(ratio, h.act_pixel, h.act_lines) IN
    IF hv = << >> THEN Ret("P_ILLEGAL_ASPECT_RATIO", [h EXCEPT !.modified = 1])
    ELSE Ret("P_OK", [h EXCEPT !.h_pp_size = hv[1], !.v_pp_size = hv[2],
                               !.modified = 1])

\* lin_image of the components of the colour format, doubled or halved
ScaleLines(h, color_format, double) ==
    [i \in DOMAIN h.comp |->
        IF i <= NrComponOf(color_format) /\ color_format # "P_STREAM"
        THEN [h.comp[i] EXCEPT !.lin_image =
                IF double THEN h.comp[i].lin_image * 2
                ELSE h.comp[i].lin_image \div 2]
        ELSE h.comp[i]]

p_mod_to_progressive(h) ==
    IF p_is_interlaced(h) = 1
    THEN Ret("P_OK", [h EXCEPT
            !.nr_images = h.nr_images \div 2,
            !.lin_freq = FrqDouble(h.lin_freq),
            !.pix_freq = FrqDouble(h.pix_freq),
            !.interlace = 1,
            !.comp = ScaleLines(h, p_get_color_format(h), TRUE),
            !.modified = 1])
    ELSE Ret("P_OK", [h EXCEPT !.modified = 1])

p_mod_to_interlaced(h) ==
    IF p_is_progressive(h) = 1
    THEN Ret("P_OK", [h EXCEPT
            !.nr_images = h.nr_images * 2,
            !.lin_freq = FrqHalf(h.lin_freq),
            !.pix_freq = FrqHalf(h.pix_freq),
            !.interlace = 2,
            !.comp = ScaleLines(h, p_get_color_format(h), FALSE),
            !.modified = 1])
    ELSE Ret("P_OK", [h EXCEPT !.modified = 1])

\* x * 1.5
FrqOneHalf(x) ==
    LET frac3 == 3 * x.frac + ((3 * x.whole) % 2) * FrqUnits IN
    [sign |-> x.sign,
     whole |-> (3 * x.whole) \div 2 + frac3 \div (2 * FrqUnits),
     frac |-> (frac3 \div 2) % FrqUnits]

p_mod_to_dbl_image_rate(h) ==
    IF p_get_image_freq(h) \in {"P_50HZ", "P_60HZ", "P_REAL_60HZ"}
    THEN Ret("P_OK", [h EXCEPT
            !.nr_images = h.nr_images * 2,
            !.ima_freq = FrqDouble(h.ima_freq),
            !.lin_freq = FrqDouble(h.lin_freq),
            !.pix_freq = FrqDouble(h.pix_freq),
            !.modified = 1])
    ELSE Ret("P_ILLEGAL_IMAGE_FREQ_MOD", [h EXCEPT !.modified = 1])

p_mod_to_onehalf_image_rate(h) ==
    IF p_get_image_freq(h) \in {"P_50HZ", "P_60HZ", "P_REAL_60HZ"}
    THEN Ret("P_OK", [h EXCEPT
            !.nr_images = (3 * h.nr_images) \div 2,
            !.ima_freq = FrqOneHalf(h.ima_freq),
            !.lin_freq = FrqOneHalf(h.lin_freq),
            !.pix_freq = FrqOneHalf(h.pix_freq),
            !.modified = 1])
    ELSE Ret("P_ILLEGAL_IMAGE_FREQ_MOD", [h EXCEPT !.modified = 1])

\* p_mod_image_size divides act_pixel by pix_line and act_lines by
\* lin_image of every component, and the new sizes by the quotients; the
\* call is defined only when none of these is zero
ImageSizeDefined(h) ==
    \A i \in 1..h.nr_compon :
        /\ h.comp[i].pix_line # 0
        /\ h.comp[i].lin_image # 0
        /\ h.act_pixel \div h.comp[i].pix_line # 0
        /\ h.act_lines \div h.comp[i].lin_image # 0

p_mod_image_size(h, width, height) ==
    LET reset_freq == ~(width <= h.act_pixel /\ height <= h.act_lines) IN
    Ret("P_OK", [h EXCEPT
        !.comp = [i \in DOMAIN h.comp |->
                    IF i <= h.nr_compon
                    THEN [h.comp[i] EXCEPT
                            !.pix_line =
                                width \div (h.act_pixel \div h.comp[i].pix_line),
                            !.lin_image =
                                height \div (h.act_lines \div h.comp[i].lin_image)]
                    ELSE h.comp[i]],
        !.act_pixel = width,
        !.act_lines = height,
        !.pix_freq = IF reset_freq THEN FrqZero ELSE h.pix_freq,
        !.lin_freq = IF reset_freq THEN FrqZero ELSE h.lin_freq,
        !.modified = 1])

p_mod_defined_image_size(h, image_size, pixels_per_line) ==
    RestoreAfterCreate(
        p_create_ext_header(h, p_get_color_format(h), p_get_image_freq(h),
                            image_size, pixels_per_line, p_is_progressive(h),
                            p_get_aspect_ratio(h)),
        p_get_num_frames(h), p_get_file_data_format(h))

p_mod_all_freqs(h, image_freq, line_freq, pixel_freq) ==
    IF ~FrqIsNegative(image_freq) /\ ~FrqIsNegative(line_freq)
       /\ ~FrqIsNegative(pixel_freq)
    THEN Ret("P_OK", [h EXCEPT !.ima_freq = image_freq,
                               !.lin_freq = line_freq,
                               !.pix_freq = pixel_freq,
                               !.modified = 1])
    ELSE Ret("P_ILLEGAL_ILP_FREQ_MOD", h)

p_mod_defined_image_freq(h, image_freq) ==
    RestoreAfterCreate(
        p_create_ext_header(h, p_get_color_format(h), image_freq,
                            p_get_image_size(h), p_get_frame_width(h),
                            p_is_progressive(h), p_get_aspect_ratio(h)),
        p_get_num_frames(h), p_get_file_data_format(h))

\* a description is a text and its length in bytes
Descr(text, len) == [text |-> text, len |-> len]
NoDescr == Descr("", 0)

p_mod_file_description(h, description) ==
    IF description.len >= P_SDESCRIPTION
    THEN Ret("P_EXCEEDING_DESCRIPTION_SIZE", [h EXCEPT !.modified = 1])
    ELSE Ret("P_OK", [h EXCEPT !.description = description, !.modified = 1])

\* comp counts from 0; -1 is ignored
p_mod_rm_comp(h, comp) ==
    IF comp = -1 THEN Ret("P_OK", h)
    ELSE IF comp < 0 \/ comp >= h.nr_compon
    THEN Ret("P_INVALID_COMPONENT", [h EXCEPT !.modified = 1])
    ELSE Ret("P_OK", [h EXCEPT
            !.comp = [i \in 1..(h.nr_compon - 1) |->
                        IF i <= comp THEN h.comp[i] ELSE h.comp[i + 1]],
            !.nr_compon = h.nr_compon - 1,
            !.modified = 1])

p_mod_rm_extra_comps(h) ==
    IF p_check_color_format_status(h) = "P_OK"
    THEN Ret("P_OK", [h EXCEPT
            !.nr_compon = NrComponOf(p_check_color_format(h)),
            !.comp = SubSeq(h.comp, 1, NrComponOf(p_check_color_format(h))),
            !.modified = 1])
    ELSE Ret(p_check_color_format_status(h), [h EXCEPT !.modified = 1])

----------------------------------------------------------------------------
(* cpfspd_low.c: the text of the header records.  A record is a sequence   *)
(* of characters; sprintf builds it and p_parse_get_* read fixed columns.  *)

DigitChars == << "0", "1", "2", "3", "4", "5", "6", "7", "8", "9" >>
IsDigit(ch) == \E d \in 1..10 : DigitChars[d] = ch
DigitVal(ch) == (CHOOSE d \in 1..10 : DigitChars[d] = ch) - 1

Spaces(n) == [i \in 1..MAX(n, 0) |-> " "]

RECURSIVE Digits(_)
\* the decimal digits of v >= 0
Digits(v) ==
    IF v < 10 THEN << DigitChars[v + 1] >>
    ELSE Digits(v \div 10) \o << DigitChars[(v % 10) + 1] >>

\* right-justify in a field of at least width characters, as %*d does
PadLeft(cs, width) == Spaces(width - Len(cs)) \o cs
\* left-justify, as %-*s does
PadRight(cs, width) == cs \o Spaces(width - Len(cs))

\* sprintf "%*d"
FmtInt(v, width) ==
    PadLeft(IF v < 0 THEN << "-" >> \o Digits(-v) ELSE Digits(v), width)

RECURSIVE ZeroFill(_, _)
ZeroFill(cs, n) == IF Len(cs) >= n THEN cs ELSE ZeroFill(<< "0" >> \o cs, n)

\* sprintf "%*f": six decimals, the value rounded to the nearest
FmtFloat(x, width) ==
    LET frac6 == (x.frac + 5) \div 10
        whole == IF frac6 >= FrqUnits \div 10 THEN x.whole + 1 ELSE x.whole
        body == Digits(whole) \o << "." >>
                \o ZeroFill(Digits(frac6 % (FrqUnits \div 10)), 6)
    IN  PadLeft(IF FrqIsNegative(x) THEN << "-" >> \o body ELSE body, width)

\* the characters of the strings the header records hold
StrChars(s) ==
    CASE s = "VIDEO                    " ->
            << "V", "I", "D", "E", "O" >> \o Spaces(20)
      [] s = "B*8 "  -> << "B", "*", "8", " " >>
      [] s = "B*10"  -> << "B", "*", "1", "0" >>
      [] s = "B*12"  -> << "B", "*", "1", "2" >>
      [] s = "B*14"  -> << "B", "*", "1", "4" >>
      [] s = "I*2 "  -> << "I", "*", "2", " " >>
      [] s = "R*2 "  -> << "R", "*", "2", " " >>
      [] s = "Y    " -> << "Y" >> \o Spaces(4)
      [] s = "U/V  " -> << "U", "/", "V", " ", " " >>
      [] s = "U    " -> << "U" >> \o Spaces(4)
      [] s = "V    " -> << "V" >> \o Spaces(4)
      [] s = "R    " -> << "R" >> \o Spaces(4)
      [] s = "G    " -> << "G" >> \o Spaces(4)
      [] s = "B    " -> << "B" >> \o Spaces(4)
      [] s = "S    " -> << "S" >> \o Spaces(4)
      [] s = "P    " -> << "P" >> \o Spaces(4)
      [] s = "X    " -> << "X" >> \o Spaces(4)
      [] s = "Z    " -> << "Z" >> \o Spaces(4)
      [] s = "A    " -> << "A" >> \o Spaces(4)
      [] s = "void " -> << "v", "o", "i", "d", " " >>
      [] s = "" -> << >>

HeaderStrings ==
    {"VIDEO                    ", "B*8 ", "B*10", "B*12", "B*14", "I*2 ",
     "R*2 ", "Y    ", "U/V  ", "U    ", "V    ", "R    ", "G    ", "B    ",
     "S    ", "P    ", "X    ", "Z    ", "A    ", "void "}

\* the string with the given characters; a text that is none of the
\* strings of the model reads as "?"
CharsStr(cs) ==
    IF \E s \in HeaderStrings : StrChars(s) = cs
    THEN CHOOSE s \in HeaderStrings : StrChars(s) = cs
    ELSE "?"

RECURSIVE SkipSpaces(_)
SkipSpaces(cs) ==
    IF cs # << >> /\ Head(cs) = " " THEN SkipSpaces(Tail(cs)) ELSE cs

RECURSIVE LeadingDigits(_)
LeadingDigits(cs) ==
    IF cs # << >> /\ IsDigit(Head(cs))
    THEN << Head(cs) >> \o LeadingDigits(Tail(cs)) ELSE << >>

RECURSIVE DigitsVal(_, _)
DigitsVal(cs, acc) ==
    IF cs = << >> THEN acc ELSE DigitsVal(Tail(cs), 10 * acc + DigitVal(Head(cs)))

\* atoi: leading spaces, then digits up to the first other character
atoi(cs) == DigitsVal(LeadingDigits(SkipSpaces(cs)), 0)

\* atof of a text without sign and exponent: leading spaces, digits, and
\* decimals after a point
atof(cs) ==
    LET t == SkipSpaces(cs)
        w == LeadingDigits(t)
        rest == SubSeq(t, Len(w) + 1, Len(t))
        d == IF rest # << >> /\ Head(rest) = "."
             THEN LeadingDigits(Tail(rest)) ELSE << >>
        d7 == IF Len(d) >= 7 THEN SubSeq(d, 1, 7) ELSE d \o [i \in 1..(7 - Len(d)) |-> "0"]
    IN  Frq(DigitsVal(w, 0), DigitsVal(d7, 0))

\* the columns pos+1 .. pos+len of a record, pos counting from 0
Columns(buf, pos, len) == SubSeq(buf, pos + 1, pos + len)

p_parse_get_int_status(buf, pos, len) ==
    IF \A i \in 1..len : buf[pos + i] = " " \/ IsDigit(buf[pos + i])
    THEN "P_OK" ELSE "P_FILE_IS_NOT_PFSPD_FILE"
p_parse_get_int(buf, pos, len) == atoi(Columns(buf, pos, len))

p_parse_get_float_status(buf, pos, len) ==
    IF \A i \in 1..len : buf[pos + i] \in {" ", "-", "+", "e", "E", "."}
                         \/ IsDigit(buf[pos + i])
    THEN "P_OK" ELSE "P_FILE_IS_NOT_PFSPD_FILE"
p_parse_get_float(buf, pos, len) == atof(Columns(buf, pos, len))

p_parse_get_str(buf, pos, len) == CharsStr(Columns(buf, pos, len))

p_parse_get_le(buf, pos) ==
    IF buf[pos + 1] \in {" ", "U", "Q"} THEN 1 ELSE 0

----------------------------------------------------------------------------
(* cpfspd_low.c: sizes and offsets in the file *)

\* the bytes of a component in the file
p_get_size_comp(width, height, data_fmt) ==
    (IF data_fmt = "B*8 " THEN 1 ELSE 2) * width * height

RECURSIVE SumCompSizes(_, _)
\* the bytes of the first n components of an image
SumCompSizes(h, n) ==
    IF n = 0 THEN 0
    ELSE SumCompSizes(h, n - 1)
         + p_get_size_comp(h.comp[n].pix_line, h.comp[n].lin_image,
                           h.comp[n].data_fmt)

p_get_size_image(h) ==
    h.nr_aux_data_recs * h.bytes_rec + SumCompSizes(h, h.nr_compon)

\* p_get_size_header without the records of the description
GlobAndCompRecsOnly(h) ==
    P_NUM_GLOB_RECS * h.bytes_rec + P_NUM_COMP_RECS * h.nr_compon * h.bytes_rec

p_get_size_header(h) ==
    P_NUM_GLOB_RECS * h.bytes_rec + h.nr_fd_recs * h.bytes_rec
    + P_NUM_COMP_RECS * h.nr_compon * h.bytes_rec

----------------------------------------------------------------------------
(* The files on disk and the table of open files.  The library state a     *)
(* call works on is a record w: disk maps a file name to the file,         *)
(* p_files maps it to the administration of the open file, acc lists the   *)
(* file accesses of the call.                                              *)

\* the files of the model; the second lies in a directory that does not
\* exist, it can neither be created nor opened
FileNames == {"a.pfspd", "none/b.pfspd"}
CanCreate(name) == name = "a.pfspd"

NoFile ==
    [exists |-> FALSE, size |-> 0, glob_str |-> << >>, glob_att |-> << >>,
     description |-> [text |-> "", len |-> 0], aux_hdrs |-> << >>,
     comp_recs |-> << >>, data |-> << >>]

ClosedFile ==
    [fp |-> 0, mode |-> "p_mode_read", no_of_images |-> 0, size_header |-> 0,
     size_image |-> 0, hdr_nr_images |-> 0]

Access(call, offset, size) == [call |-> call, offset |-> offset, size |-> size]

\* the first characters of a record replaced
Overwrite(rec, cs) ==
    [i \in 1..MAX(Len(rec), Len(cs)) |-> IF i <= Len(cs) THEN cs[i] ELSE rec[i]]

\* p_close_idx: the number of images written beyond the count of the
\* header goes into the first field of the file, then the file is closed
p_close_idx(w, name) ==
    LET a == w.p_files[name]
        more == a.no_of_images > a.hdr_nr_images
    IN  [w EXCEPT
            !.disk[name].glob_str =
                IF more /\ a.mode # "p_mode_read"
                THEN Overwrite(@, SubSeq(FmtInt(a.no_of_images, P_SNR_IMAGES),
                                         1, P_SNR_IMAGES))
                ELSE @,
            !.disk[name].size =
                IF more /\ a.mode # "p_mode_read" THEN MAX(@, P_SNR_IMAGES) ELSE @,
            !.p_files[name].fp = 0,
            !.acc = IF more
                    THEN @ \o << Access("seek", 0, 0),
                                 Access("write", 0, P_SNR_IMAGES),
                                 Access("close", 0, 0) >>
                    ELSE Append(@, Access("close", 0, 0))]

\* whether fopen succeeds
CanOpen(w, name, mode) ==
    IF mode = "p_mode_write" THEN CanCreate(name) ELSE w.disk[name].exists

\* whether the file is open in a mode that does not allow the access
ModeConflict(a, mode) ==
    /\ a.fp = 1
    /\ \/ (mode # "p_mode_read" /\ a.mode = "p_mode_read")
       \/ (mode = "p_mode_read" /\ a.mode = "p_mode_write")

\* p_get_file_pointer for a file that is not open in a conflicting mode
GetFilePointer(w, name, mode, size) ==
    IF w.p_files[name].fp = 1
    THEN [w EXCEPT !.acc = Append(@, Access("p_get_file_pointer", 0, 0))]
    ELSE IF ~CanOpen(w, name, mode)
    THEN [w EXCEPT !.acc = Append(@, Access("fopen", 0, 0))]
    ELSE [w EXCEPT
            !.disk[name] =
                IF mode = "p_mode_write"
                THEN [NoFile EXCEPT !.exists = TRUE,
                                    !.size = IF size > 0 THEN size ELSE 0]
                ELSE @,
            !.p_files[name] = [ClosedFile EXCEPT !.fp = 1, !.mode = mode],
            !.acc = Append(@, Access("fopen", 0, 0))]

\* p_get_file_pointer; the result is the library state, the file is open
\* afterwards (fp = 1) unless fopen failed
p_get_file_pointer(w, name, mode, size) ==
    GetFilePointer(IF ModeConflict(w.p_files[name], mode)
                   THEN p_close_idx(w, name) ELSE w,
                   name, mode, size)

p_set_file_length(w, name, no_of_images) ==
    IF w.p_files[name].fp = 1 /\ no_of_images > w.p_files[name].no_of_images
    THEN [w EXCEPT !.p_files[name].no_of_images = no_of_images]
    ELSE w

p_set_file_size_info(w, name, size_header, size_image, hdr_nr_images) ==
    IF w.p_files[name].fp = 1
    THEN [w EXCEPT !.p_files[name].size_header = size_header,
                   !.p_files[name].size_image = size_image,
                   !.p_files[name].hdr_nr_images = hdr_nr_images]
    ELSE w

----------------------------------------------------------------------------
(* cpfspd_low.c: the administration of the open files, slot by slot.       *)
(* t is the static data and the files: p_files, the array of               *)
(* P_MAX_OPEN_FILES slots (slot i of the code is p_files[i + 1] here),     *)
(* p_file_count, p_event_count, the files on disk and the calls made on    *)
(* them.  Of a file the first field of its header is kept, the number of   *)
(* images.                                                                 *)

P_MAX_OPEN_FILES == 10

\* a slot of the static array, all zero
EmptySlot ==
    [fp |-> 0, name |-> "", mode |-> "p_mode_read", timestamp |-> 0,
     no_of_images |-> 0, hdr_nr_images |-> 0]

\* a call of the C library on the stream of the file name
FileOp(call, name) == [call |-> call, name |-> name]

\* the slots in use
UsedSlots(t) == 1 .. t.p_file_count

\* the slots with an open file
OpenSlots(t) == {i \in UsedSlots(t) : t.p_files[i].fp # 0}

\* ept: the first empty slot in use, 0 when there is none
FirstEmptySlot(t) ==
    IF UsedSlots(t) \ OpenSlots(t) = {} THEN 0
    ELSE CHOOSE i \in UsedSlots(t) \ OpenSlots(t) :
            \A j \in UsedSlots(t) \ OpenSlots(t) : i <= j

\* the most recently used open file
MruSlot(t) ==
    IF OpenSlots(t) = {} THEN 0
    ELSE CHOOSE i \in OpenSlots(t) :
            \A j \in OpenSlots(t) :
                \/ t.p_files[j].timestamp < t.p_files[i].timestamp
                \/ t.p_files[i].timestamp = t.p_files[j].timestamp /\ i <= j

\* lru: the first of the open files with the lowest timestamp, 0 when no
\* file is open
LruSlot(t) ==
    IF OpenSlots(t) = {} THEN 0
    ELSE CHOOSE i \in OpenSlots(t) :
            \A j \in OpenSlots(t) :
                \/ t.p_files[i].timestamp < t.p_files[j].timestamp
                \/ t.p_files[i].timestamp = t.p_files[j].timestamp /\ i <= j

\* idx: the last slot in use that carries the name, open or not, 0 when
\* there is none
NamedSlot(t, name) ==
    IF \E i \in UsedSlots(t) : t.p_files[i].name = name
    THEN CHOOSE i \in UsedSlots(t) :
            /\ t.p_files[i].name = name
            /\ \A j \in UsedSlots(t) : t.p_files[j].name = name => j <= i
    ELSE 0

\* a close that leaves the number of images in the file as it is
CloseOnly(t, idx) ==
    [t EXCEPT !.p_files[idx].fp = 0,
              !.acc = Append(@, FileOp("fclose", t.p_files[idx].name))]

\* the number of images written is written to the start of the file,
\* unless the fwrite fails: the device of the file is full
WithImageCount(t, f) ==
    [t EXCEPT
        !.disk[f.name] =
            IF f.mode # "p_mode_read" /\ ~@.full
            THEN [@ EXCEPT !.nr_images =
                    SubSeq(FmtInt(f.no_of_images, P_SNR_IMAGES), 1,
                           P_SNR_IMAGES)]
            ELSE @,
        !.acc = @ \o << FileOp("fseek", f.name), FileOp("fwrite", f.name) >>]

\* p_close_idx on slot idx returns P_WRITE_FAILED: the number of images
\* is to be written, and the fwrite fails
CloseFails(t, idx) ==
    /\ t.p_files[idx].no_of_images > t.p_files[idx].hdr_nr_images
    /\ t.disk[t.p_files[idx].name].full

\* p_close_idx on slot idx
CloseSlot(t, idx) ==
    IF t.p_files[idx].no_of_images > t.p_files[idx].hdr_nr_images
    THEN CloseOnly(WithImageCount(t, t.p_files[idx]), idx)
    ELSE CloseOnly(t, idx)

\* the file in slot idx is open in a mode that does not allow the access
SlotConflict(t, idx, mode) ==
    /\ idx # 0
    /\ t.p_files[idx].fp # 0
    /\ \/ (mode # "p_mode_read" /\ t.p_files[idx].mode = "p_mode_read")
       \/ (mode = "p_mode_read" /\ t.p_files[idx].mode = "p_mode_write")

\* fopen on slot idx: the slot is filled when fopen succeeds only; "wb"
\* makes an empty file
OpenedSlot(t, idx, name, mode) ==
    IF mode = "p_mode_write" \/ t.disk[name].exists
    THEN [t EXCEPT
            !.p_files[idx] = [EmptySlot EXCEPT !.fp = 1, !.name = name,
                                                !.mode = mode],
            !.disk[name] = IF mode = "p_mode_write"
                           THEN [@ EXCEPT !.exists = TRUE,
                                          !.nr_images = << >>]
                           ELSE @,
            !.acc = Append(@, FileOp("fopen", name))]
    ELSE [t EXCEPT !.p_files[idx].fp = 0,
                   !.acc = Append(@, FileOp("fopen", name))]

\* the slot of a file that is to be opened: that of its name, else the
\* first empty one, else a new one, else that of the least recently used
\* file, which is closed
OpenedAnew(t, idx, name, mode) ==
    IF idx # 0 THEN OpenedSlot(t, idx, name, mode)
    ELSE IF FirstEmptySlot(t) # 0
    THEN OpenedSlot(t, FirstEmptySlot(t), name, mode)
    ELSE IF t.p_file_count < P_MAX_OPEN_FILES
    THEN OpenedSlot([t EXCEPT !.p_file_count = @ + 1], t.p_file_count + 1,
                    name, mode)
    ELSE OpenedSlot(CloseSlot(t, LruSlot(t)), LruSlot(t), name, mode)

\* the slot p_get_file_pointer ends with
SlotOf(t, idx) ==
    IF idx # 0 THEN idx
    ELSE IF FirstEmptySlot(t) # 0 THEN FirstEmptySlot(t)
    ELSE IF t.p_file_count < P_MAX_OPEN_FILES THEN t.p_file_count + 1
    ELSE LruSlot(t)

\* the event is counted and the slot stamped with it
Stamped(t, idx) ==
    [t EXCEPT !.p_event_count = @ + 1,
              !.p_files[idx].timestamp = t.p_event_count + 1]

\* p_get_file_pointer with the slot idx of the name: what it leaves and
\* the slot of the file; the file pointer is the fp of that slot
FilePointerAt(t, idx, name, mode) ==
    [t |-> Stamped(
              IF SlotConflict(t, idx, mode)
              THEN OpenedSlot(CloseSlot(t, idx), idx, name, mode)
              ELSE IF idx = 0 \/ t.p_files[idx].fp = 0
              THEN OpenedAnew(t, idx, name, mode)
              ELSE t,
              SlotOf(t, idx)),
     idx |-> SlotOf(t, idx)]

\* p_get_file_pointer for a file that is not stdin or stdout
FilePointer(t, name, mode) == FilePointerAt(t, NamedSlot(t, name), name, mode)

\* the file pointer is NULL
NoPointer(r) == r.t.p_files[r.idx].fp = 0

\* p_set_file_length on the file of slot idx
SetFileLength(t, idx, no_of_images) ==
    IF no_of_images > t.p_files[idx].no_of_images
    THEN [t EXCEPT !.p_files[idx].no_of_images = no_of_images]
    ELSE t

\* p_set_file_size_info on the file of slot idx
SetFileSizeInfo(t, idx, hdr_nr_images) ==
    [t EXCEPT !.p_files[idx].hdr_nr_images = hdr_nr_images]

\* p_open_file
OpenFileStatus(r, write) ==
    [status |-> IF ~NoPointer(r) THEN "P_OK"
                ELSE IF write # 0 THEN "P_FILE_CREATE_FAILED"
                ELSE "P_FILE_OPEN_FAILED",
     t |-> r.t]

p_open_file(t, filename, write) ==
    OpenFileStatus(
        FilePointer(t, filename,
                    IF write # 0 THEN "p_mode_write" ELSE "p_mode_read"),
        write)

\* the files p_close_file closes: the open files of the name, all open
\* files for NULL
ToClose(t, filename) ==
    {i \in OpenSlots(t) : filename = "NULL" \/ filename = t.p_files[i].name}

\* the slots of closed that write the number of images of the file name
CountSlots(t, closed, name) ==
    {i \in closed : /\ t.p_files[i].name = name
                    /\ t.p_files[i].no_of_images > t.p_files[i].hdr_nr_images
                    /\ t.p_files[i].mode # "p_mode_read"}

\* the highest of a set of slots, 0 for the empty set
LastSlot(slots) ==
    IF slots = {} THEN 0 ELSE CHOOSE i \in slots : \A j \in slots : j <= i

\* the slot that is closed last of those that write the number of images
\* of the file name, 0 when there is none
LastCount(t, closed, name) == LastSlot(CountSlots(t, closed, name))

RECURSIVE CloseOps(_, _, _)
\* the calls p_close_idx makes for the slots of closed from slot i on
CloseOps(t, closed, i) ==
    IF i > t.p_file_count THEN << >>
    ELSE (IF i \in closed THEN CloseSlot([t EXCEPT !.acc = << >>], i).acc
          ELSE << >>) \o CloseOps(t, closed, i + 1)

\* the loop of p_close_file: p_close_idx on each of the slots closed, in
\* the order of the slots
CloseAll(t, closed) ==
    [t EXCEPT
        !.p_files = [i \in DOMAIN @ |->
                        IF i \in closed THEN [@[i] EXCEPT !.fp = 0] ELSE @[i]],
        !.disk = [n \in DOMAIN @ |->
                    IF LastCount(t, closed, n) # 0
                    THEN CloseSlot(t, LastCount(t, closed, n)).disk[n]
                    ELSE @[n]],
        !.acc = @ \o CloseOps(t, closed, 1)]

\* slot i is the last that p_close_file closes
ClosedLast(t, filename, i) ==
    /\ t.p_files[i].fp # 0
    /\ filename = "NULL" \/ filename = t.p_files[i].name
    /\ \A j \in (i + 1) .. t.p_file_count :
          ~(/\ t.p_files[j].fp # 0
            /\ filename = "NULL" \/ filename = t.p_files[j].name)

\* p_close_file; NULL closes all files.  The status is that of the last
\* p_close_idx
p_close_file(t, filename) ==
    [status |-> IF \E i \in 1 .. t.p_file_count :
                      CloseFails(t, i) /\ ClosedLast(t, filename, i)
                THEN "P_WRITE_FAILED" ELSE "P_OK",
     t |-> IF filename = "NULL"
           THEN [CloseAll(t, ToClose(t, filename)) EXCEPT !.p_file_count = 0]
           ELSE CloseAll(t, ToClose(t, filename))]

\* p_atexit_close, for an application that did not read from stdin
p_atexit_close(t) == p_close_file(t, "NULL")

\* the part of p_write_hdr that works on the file: the file is opened,
\* the records are written, of which nr_images is kept, and the file is
\* told the number of images of the header
WrittenHdr(r, name, nr_images, rewrite) ==
    IF NoPointer(r)
    THEN [status |-> IF rewrite THEN "P_FILE_MODIFY_FAILED"
                     ELSE "P_FILE_CREATE_FAILED",
          t |-> r.t]
    ELSE [status |-> "P_OK",
          t |-> SetFileSizeInfo(
                    [r.t EXCEPT
                        !.disk[name].nr_images = FmtInt(nr_images, P_SNR_IMAGES),
                        !.acc = @ \o << FileOp("fseek", name),
                                        FileOp("fwrite", name) >>],
                    r.idx, nr_images)]

WriteHdrFile(t, name, nr_images, rewrite) ==
    WrittenHdr(FilePointer(t, name, IF rewrite THEN "p_mode_update"
                                    ELSE "p_mode_write"),
               name, nr_images, rewrite)

\* the part of p_write_image that works on the file: the file is opened
\* for update, the component is written, and the file is told the number
\* of the image
WrittenImage(r, name, nr) ==
    IF NoPointer(r) THEN [status |-> "P_FILE_MODIFY_FAILED", t |-> r.t]
    ELSE [status |-> "P_OK",
          t |-> SetFileLength(
                    [r.t EXCEPT
                        !.acc = @ \o << FileOp("fseek", name),
                                        FileOp("fwrite", name) >>],
                    r.idx, nr)]

WriteImageFile(t, name, nr) ==
    WrittenImage(FilePointer(t, name, "p_mode_update"), name, nr)

----------------------------------------------------------------------------
(* cpfspd_low.c: writing and reading the header records *)

P_LEN_GLOB_STR == 60
P_LEN_GLOB_ATT == 60
P_LEN_COMP_STR == 16
P_LEN_COMP_ATT == 17

\* 1 when the machine stores the low byte of a short first
p_system_is_little_endian == 1

Field(name, kind, len) == [name |-> name, kind |-> kind, len |-> len]

\* the fields of the four kinds of header record, in the order and with
\* the widths of the sprintf and p_parse_get_* calls
GlobStrFields ==
    << Field("nr_images", "int", 7), Field("nr_compon", "int", 5),
       Field("nr_fd_recs", "int", 5), Field("nr_aux_data_recs", "int", 5),
       Field("appl_type", "str", 25), Field("bytes_rec", "int", 7),
       Field("little_endian", "le", 1), Field("nr_aux_hdr_recs", "int", 5) >>

GlobAttFields ==
    << Field("ima_freq", "float", 12), Field("lin_freq", "float", 12),
       Field("pix_freq", "float", 12), Field("act_lines", "int", 6),
       Field("act_pixel", "int", 6), Field("interlace", "int", 2),
       Field("h_pp_size", "int", 5), Field("v_pp_size", "int", 5) >>

CompStrFields ==
    << Field("lin_image", "int", 6), Field("pix_line", "int", 6),
       Field("data_fmt", "str", 4) >>

CompAttFields ==
    << Field("tem_sbsmpl", "int", 2), Field("lin_sbsmpl", "int", 2),
       Field("pix_sbsmpl", "int", 2), Field("tem_phshft", "int", 2),
       Field("lin_phshft", "int", 2), Field("pix_phshft", "int", 2),
       Field("com_code", "str", 5) >>

\* the text sprintf gives one field
FmtField(f, v) ==
    CASE f.kind = "int"   -> FmtInt(v, f.len)
      [] f.kind = "float" -> FmtFloat(v, f.len)
      [] f.kind = "str"   -> PadRight(StrChars(v), f.len)
      [] f.kind = "le"    -> IF v # 0 THEN << "U" >> ELSE << "A" >>

RECURSIVE FmtFields(_, _, _)
FmtFields(fields, rec, i) ==
    IF i > Len(fields) THEN << >>
    ELSE FmtField(fields[i], rec[fields[i].name]) \o FmtFields(fields, rec, i + 1)

\* the part of a record of bytes_rec >= P_MIN_BYTES_PER_REC bytes that
\* p_read_hdr reads: the first len characters of the fields followed by
\* the space padding
RecordText(fields, rec, len) ==
    SubSeq(FmtFields(fields, rec, 1) \o Spaces(len), 1, len)

RECURSIVE ParseFields(_, _, _, _, _)
\* the fields parsed from buf into rec, up to the first field that is
\* rejected
ParseFields(buf, fields, rec, i, pos) ==
    IF i > Len(fields) THEN [status |-> "P_OK", rec |-> rec]
    ELSE LET f == fields[i]
             st == CASE f.kind = "int" -> p_parse_get_int_status(buf, pos, f.len)
                     [] f.kind = "float" -> p_parse_get_float_status(buf, pos, f.len)
                     [] OTHER -> "P_OK"
             v == CASE f.kind = "int" -> p_parse_get_int(buf, pos, f.len)
                    [] f.kind = "float" -> p_parse_get_float(buf, pos, f.len)
                    [] f.kind = "str" -> p_parse_get_str(buf, pos, f.len)
                    [] f.kind = "le" -> p_parse_get_le(buf, pos)
         IN IF st # "P_OK" THEN [status |-> st, rec |-> rec]
            ELSE ParseFields(buf, fields, [rec EXCEPT ![f.name] = v],
                             i + 1, pos + f.len)

\* the description as far as amount bytes hold it
Truncate(description, amount) ==
    IF description.len <= amount THEN description
    ELSE [text |-> description.text, len |-> MAX(amount, 0)]

DescrAmount(h) ==
    MIN(h.bytes_rec * (h.nr_fd_recs - h.nr_aux_hdr_recs), P_SDESCRIPTION)

\* the records of header h put into the file
WriteHdrRecords(w, name, h) ==
    [w EXCEPT
        !.disk[name].glob_str = RecordText(GlobStrFields, h, P_LEN_GLOB_STR),
        !.disk[name].glob_att = RecordText(GlobAttFields, h, P_LEN_GLOB_ATT),
        !.disk[name].description =
            IF h.nr_fd_recs > 0
            THEN Truncate(h.description, DescrAmount(h)) ELSE @,
        !.disk[name].aux_hdrs =
            IF h.nr_fd_recs > 0 /\ h.nr_aux_hdr_recs > 0 THEN h.aux_hdrs ELSE @,
        !.disk[name].comp_recs =
            [i \in 1..h.nr_compon |->
                [str |-> RecordText(CompStrFields, h.comp[i], P_LEN_COMP_STR),
                 att |-> RecordText(CompAttFields, h.comp[i], P_LEN_COMP_ATT)]],
        !.disk[name].size = MAX(@, p_get_size_header(h)),
        !.acc = @ \o << Access("seek", 0, 0),
                        Access("write", 0, p_get_size_header(h)) >>]

\* p_write_hdr after the file was opened
WriteHdrOpened(w, name, h, rewrite) ==
    IF w.p_files[name].fp = 0
    THEN [status |-> IF rewrite THEN "P_FILE_MODIFY_FAILED"
                     ELSE "P_FILE_CREATE_FAILED",
          header |-> h, w |-> w]
    ELSE [status |-> "P_OK", header |-> h,
          w |-> p_set_file_size_info(WriteHdrRecords(w, name, h), name,
                                     p_get_size_header(h), p_get_size_image(h),
                                     h.nr_images)]

\* the header as the file gets it: little_endian is set when the file is
\* written anew
WriteHdrEndian(h, rewrite) ==
    IF rewrite THEN h
    ELSE [h EXCEPT !.little_endian = p_system_is_little_endian]

\* p_write_hdr: the status, the header and the library state
p_write_hdr(w, name, h, rewrite) ==
    IF h.bytes_rec < P_MIN_BYTES_PER_REC
    THEN [status |-> "P_ILLEGAL_BYTES_PER_REC",
          header |-> WriteHdrEndian(h, rewrite), w |-> w]
    ELSE WriteHdrOpened(
            p_get_file_pointer(w, name,
                IF rewrite THEN "p_mode_update" ELSE "p_mode_write",
                p_get_size_header(h) + h.nr_images * p_get_size_image(h)),
            name, WriteHdrEndian(h, rewrite), rewrite)

ZeroComp ==
    [lin_image |-> 0, pix_line |-> 0, data_fmt |-> "",
     tem_sbsmpl |-> 0, lin_sbsmpl |-> 0, pix_sbsmpl |-> 0,
     tem_phshft |-> 0, lin_phshft |-> 0, pix_phshft |-> 0, com_code |-> ""]

\* a component record read, put before the records read after it
PrependComp(c, rest) == [status |-> rest.status, comp |-> << c >> \o rest.comp]

RECURSIVE ReadComps(_, _, _)
\* the attributes of component record i parsed; a is the record with its
\* strings
ReadCompAtt(f, nr_compon, i, a) ==
    IF a.status # "P_OK" THEN [status |-> a.status, comp |-> << a.rec >>]
    ELSE PrependComp(a.rec, ReadComps(f, nr_compon, i + 1))

\* the strings of component record i parsed
ReadCompStr(f, nr_compon, i, s) ==
    IF s.status # "P_OK" THEN [status |-> s.status, comp |-> << s.rec >>]
    ELSE ReadCompAtt(f, nr_compon, i,
                     ParseFields(f.comp_recs[i].att, CompAttFields, s.rec, 1, 0))

\* the loop of p_read_hdr over the component records i..nr_compon of file
\* f; it stops at the first record that is missing or rejected
ReadComps(f, nr_compon, i) ==
    IF i > nr_compon THEN [status |-> "P_OK", comp |-> << >>]
    ELSE IF i > Len(f.comp_recs)
    THEN [status |-> "P_FILE_IS_NOT_PFSPD_FILE", comp |-> << >>]
    ELSE ReadCompStr(f, nr_compon, i,
                     ParseFields(f.comp_recs[i].str, CompStrFields, ZeroComp, 1, 0))

\* p_read_hdr, the global records: the strings, then the attributes
ReadGlobAtt(f, g) ==
    IF g.status # "P_OK" THEN g
    ELSE ParseFields(f.glob_att, GlobAttFields, g.rec, 1, 0)

ReadGlob(f) ==
    IF Len(f.glob_str) < P_LEN_GLOB_STR
    THEN [status |-> "P_FILE_IS_NOT_PFSPD_FILE", rec |-> ZeroHeader]
    ELSE ReadGlobAtt(f, ParseFields(f.glob_str, GlobStrFields,
                [ZeroHeader EXCEPT !.aux_hdrs = NoAuxHeaders(@)], 1, 0))

\* the description of the file as far as the file description records
\* of header h hold it
ReadDescription(f, h) ==
    Truncate(f.description, MIN(DescrAmount(h), P_SDESCRIPTION - 1))

\* p_read_hdr, the file description records: the description and the
\* auxiliary headers, after the global records a
ReadFd(f, a) ==
    IF a.status # "P_OK" \/ a.rec.nr_fd_recs <= 0 THEN a
    ELSE IF a.rec.nr_aux_hdr_recs <= 0
    THEN [a EXCEPT !.rec.description = ReadDescription(f, a.rec)]
    ELSE IF a.rec.bytes_rec * a.rec.nr_aux_hdr_recs > P_SAUX_HDR
    THEN [a EXCEPT !.status = "P_EXCEEDING_AUXILIARY_HDR_SIZE",
                   !.rec.description = ReadDescription(f, a.rec)]
    ELSE [a EXCEPT !.rec.description = ReadDescription(f, a.rec),
                   !.rec.aux_hdrs = f.aux_hdrs]

\* p_read_hdr, the component records, after the records d before them
ReadCompRecs(f, d) ==
    IF d.status # "P_OK" THEN [status |-> d.status, comp |-> << >>]
    ELSE IF d.rec.nr_compon > P_PFSPD_MAX_COMP
    THEN [status |-> "P_TOO_MANY_COMPONENTS", comp |-> << >>]
    ELSE ReadComps(f, d.rec.nr_compon, 1)

\* the header and the status p_read_hdr ends with: h is the header up to
\* the component records, c the component records
ReadHdrResult(w, name, h, c) ==
    [status |-> c.status, header |-> [h EXCEPT !.comp = c.comp],
     w |-> p_set_file_size_info(
              [w EXCEPT !.acc = @ \o << Access("seek", 0, 0),
                                       Access("read", 0,
                                              p_get_size_header(h)) >>],
              name, p_get_size_header(h),
              IF c.status = "P_OK"
              THEN p_get_size_image([h EXCEPT !.comp = c.comp]) ELSE 0,
              h.nr_images)]

ReadHdrRecords(w, name, f, d) ==
    ReadHdrResult(w, name, d.rec, ReadCompRecs(f, d))

\* p_read_hdr after the file was opened
ReadHdrOpened(w, name, old) ==
    IF w.p_files[name].fp = 0
    THEN [status |-> "P_FILE_OPEN_FAILED", header |-> old, w |-> w]
    ELSE ReadHdrRecords(w, name, w.disk[name],
                        ReadFd(w.disk[name], ReadGlob(w.disk[name])))

\* p_read_hdr: the status, the header read (old when the file cannot be
\* opened) and the library state
p_read_hdr(w, name, old) ==
    ReadHdrOpened(p_get_file_pointer(w, name, "p_mode_read", -1), name, old)

----------------------------------------------------------------------------
(* cpfspd_aux.c: the auxiliary headers.  aux_hdrs is the array of          *)
(* P_SAUX_HDR bytes of the header: the auxiliary headers one after the     *)
(* other, each with its length in its first P_SAUX_HDRLEN bytes, and the   *)
(* sentinel after the last.                                                *)

P_SAUX_HDRLEN == 8
P_SAUX_NAME == 16
P_SMAX_LEN == 8
P_SRESERVED == 16
P_SMIN_VALID == 48
P_MAX_FIELD_LEN == 8

p_aux_parse_int(buf, len) ==
    IF \E i \in 1..MIN(len, P_MAX_FIELD_LEN) :
            ~(buf[i] = " " \/ IsDigit(buf[i]))
    THEN 0
    ELSE atoi(SubSeq(buf, 1, len))

\* the length field of the auxiliary header at offset
AuxLen(aux_hdrs, offset) ==
    p_aux_parse_int(BytesAt(aux_hdrs, offset, P_SAUX_HDRLEN), P_SAUX_HDRLEN)

\* the maximum data size of the auxiliary header at offset
AuxMaxLen(aux_hdrs, offset) ==
    p_aux_parse_int(
        BytesAt(aux_hdrs, offset + P_SAUX_HDRLEN + P_SAUX_NAME, P_SMAX_LEN),
        P_SMAX_LEN)

RECURSIVE AuxChain(_, _)
\* the offsets of the auxiliary headers from offset on, up to the first
\* length that is no length of a header
AuxChain(aux_hdrs, offset) ==
    IF AuxLen(aux_hdrs, offset) < P_SMIN_VALID THEN << >>
    ELSE << offset >>
         \o AuxChain(aux_hdrs, offset + AuxLen(aux_hdrs, offset))

\* the offset after the headers at the offsets chain: that of the sentinel
ChainEnd(aux_hdrs, chain) ==
    IF chain = << >> THEN 0
    ELSE chain[Len(chain)] + AuxLen(aux_hdrs, chain[Len(chain)])

\* the headers of the chain that have data in an image
NumAuxWithData(h) ==
    Cardinality({i \in 1..Len(AuxChain(h.aux_hdrs, 0)) :
                    AuxMaxLen(h.aux_hdrs, AuxChain(h.aux_hdrs, 0)[i]) > 0})

p_get_num_aux(h) == Len(AuxChain(h.aux_hdrs, 0))

RECURSIVE AuxTotal(_, _, _)
\* the bytes the data of the first n headers of a chain take in an image
AuxTotal(aux_hdrs, chain, n) ==
    IF n = 0 THEN 0
    ELSE AuxTotal(aux_hdrs, chain, n - 1)
         + (IF AuxMaxLen(aux_hdrs, chain[n]) > 0
            THEN AuxMaxLen(aux_hdrs, chain[n]) + P_SMAX_LEN ELSE 0)

\* the total of a chain
ChainTotal(aux_hdrs, chain) == AuxTotal(aux_hdrs, chain, Len(chain))

\* the total of the first header alone
FirstAuxTotal(aux_hdrs) ==
    AuxTotal(aux_hdrs, AuxChain(aux_hdrs, 0),
             MIN(1, Len(AuxChain(aux_hdrs, 0))))

p_aux_get_total(aux_hdrs) == ChainTotal(aux_hdrs, AuxChain(aux_hdrs, 0))

\* the offset with the 8 bytes of a length for the headers without data
\* as well
DataOffsetOfAll(aux_hdrs, aux_id) ==
    AuxTotal(aux_hdrs, AuxChain(aux_hdrs, 0), aux_id)
    + P_SMAX_LEN
      * Cardinality({i \in 1..aux_id :
                        AuxMaxLen(aux_hdrs, AuxChain(aux_hdrs, 0)[i]) = 0})

\* aux_id counts from 0
p_aux_get_data_offset(aux_hdrs, aux_id) ==
    AuxTotal(aux_hdrs, AuxChain(aux_hdrs, 0), aux_id)

\* a comparison of names that finds none the same
NoNameTheSame(aux_hdrs, offset, name) == FALSE

\* the name field of the header at offset holds name, as strncmp finds
SameAuxName(aux_hdrs, offset, name) ==
    BytesAt(aux_hdrs, offset + P_SAUX_HDRLEN, P_SAUX_NAME)
        = PadRight(StrChars(name), P_SAUX_NAME)

\* the first header of a chain that holds name, counted from 0, or -1
FirstNamed(aux_hdrs, chain, name) ==
    IF \E i \in 1..Len(chain) : SameAuxName(aux_hdrs, chain[i], name)
    THEN (CHOOSE i \in 1..Len(chain) :
            /\ SameAuxName(aux_hdrs, chain[i], name)
            /\ \A j \in 1..(i - 1) : ~SameAuxName(aux_hdrs, chain[j], name)) - 1
    ELSE -1

p_get_aux_by_name(h, name) ==
    FirstNamed(h.aux_hdrs, AuxChain(h.aux_hdrs, 0), name)

\* p_get_aux: the maximum data size of header aux_id, counted from 0
p_get_aux_max_size(h, aux_id) ==
    AuxMaxLen(h.aux_hdrs, AuxChain(h.aux_hdrs, 0)[aux_id + 1])

RECURSIVE ChainSizes(_, _, _)
\* the maximum sizes of the headers of a chain that have data, in order
ChainSizes(aux_hdrs, chain, i) ==
    IF i > Len(chain) THEN << >>
    ELSE (IF AuxMaxLen(aux_hdrs, chain[i]) = 0 THEN << >>
          ELSE << AuxMaxLen(aux_hdrs, chain[i]) >>)
         \o ChainSizes(aux_hdrs, chain, i + 1)

AuxSizes(aux_hdrs) == ChainSizes(aux_hdrs, AuxChain(aux_hdrs, 0), 1)

----------------------------------------------------------------------------
(* cpfspd_hdr.c: reading, writing and rewriting the header *)

NoName == "NULL"

\* the end of p_read_header, p_write_header and p_rewrite_header: the
\* header is no longer modified, whatever the status
Unmodified(r) == [r EXCEPT !.header.modified = 0]

ReadHeaderChecked(r) ==
    IF r.status # "P_OK" THEN r
    ELSE [r EXCEPT !.status = p_check_header(r.header)]

p_read_header(w, filename, h) ==
    IF filename = NoName
    THEN Unmodified([status |-> "P_FILE_OPEN_FAILED", header |-> h, w |-> w])
    ELSE Unmodified(ReadHeaderChecked(p_read_hdr(w, filename, h)))

\* the records for the description and the auxiliary headers that
\* p_write_header makes room for
WithFdRecs(h, aux_recs) ==
    [h EXCEPT !.nr_aux_hdr_recs = aux_recs,
              !.nr_fd_recs = MAX(h.nr_fd_recs,
                                 aux_recs + P_SDESCRIPTION \div h.bytes_rec)]

WriteHeaderChecked(w, filename, h, st) ==
    IF st # "P_OK" THEN [status |-> st, header |-> h, w |-> w]
    ELSE p_write_hdr(w, filename,
            IF h.disable_hdr_checks # 0 THEN h
            ELSE WithFdRecs(h, MAX(h.nr_aux_hdr_recs,
                                   P_SAUX_HDR \div h.bytes_rec)),
            FALSE)

p_write_header(w, filename, h) ==
    IF filename = NoName
    THEN Unmodified([status |-> "P_FILE_CREATE_FAILED", header |-> h, w |-> w])
    ELSE Unmodified(WriteHeaderChecked(w, filename, h, p_check_header(h)))

\* the test of p_rewrite_header on the fields that fix the layout of the
\* file: old is the header of the file, h the one to be written
LayoutDiffers(old, h) ==
    \/ old.nr_images # h.nr_images
    \/ old.nr_compon # h.nr_compon
    \/ old.nr_fd_recs # h.nr_fd_recs
    \/ old.nr_aux_data_recs # h.nr_aux_data_recs
    \/ old.bytes_rec # h.bytes_rec
    \/ old.little_endian # h.little_endian
    \/ old.nr_aux_hdr_recs # h.nr_aux_hdr_recs
    \/ old.interlace # h.interlace
    \/ old.act_lines * old.act_pixel # h.act_lines * h.act_pixel

CompsDiffer(old, h) ==
    \E i \in 1..h.nr_compon :
        \/ old.comp[i].lin_image * old.comp[i].pix_line
           # h.comp[i].lin_image * h.comp[i].pix_line
        \/ old.comp[i].data_fmt # h.comp[i].data_fmt

\* the comparison of p_rewrite_header: r is what p_read_hdr gave for the
\* file, h the header to be written
RewriteStatus(r, h) ==
    IF r.status # "P_OK" THEN r.status
    ELSE IF LayoutDiffers(r.header, h) THEN "P_REWRITE_MODIFIED_HEADER"
    ELSE IF CompsDiffer(r.header, h) THEN "P_REWRITE_MODIFIED_HEADER"
    ELSE IF h.nr_fd_recs = 0 /\ h.description.len > 0
    THEN "P_EXCEEDING_DESCRIPTION_SIZE"
    ELSE IF AuxSizes(r.header.aux_hdrs) # AuxSizes(h.aux_hdrs)
    THEN "P_REWRITE_MODIFIED_HEADER"
    ELSE "P_OK"

RewriteCompared(w, filename, h, st) ==
    IF st # "P_OK" THEN [status |-> st, header |-> h, w |-> w]
    ELSE p_write_hdr(w, filename, h, TRUE)

RewriteRead(filename, h, r) ==
    RewriteCompared(r.w, filename, h, RewriteStatus(r, h))

RewriteChecked(w, filename, h, st) ==
    IF st # "P_OK" THEN [status |-> st, header |-> h, w |-> w]
    ELSE RewriteRead(filename, h, p_read_hdr(w, filename, ZeroHeader))

p_rewrite_header(w, filename, h) ==
    IF filename = NoName
    THEN Unmodified([status |-> "P_FILE_MODIFY_FAILED", header |-> h, w |-> w])
    ELSE Unmodified(RewriteChecked(w, filename, h, p_check_header(h)))

----------------------------------------------------------------------------
(* cpfspd_low.c: the samples of an image.                                  *)
(*                                                                         *)
(* A buffer of the caller is a record: id tells which of the three buffers *)
(* of a call it is, seed which content the caller put in, len how many     *)
(* elements the caller allocated, base at which element the pointer handed *)
(* to the library points.  Reading an element the caller did not allocate, *)
(* or a byte of a malloc'ed block that was never stored, yields the byte   *)
(* junk, which every call draws anew.                                      *)
(*                                                                         *)
(* The data of a file is the sequence of the blocks written to it, each    *)
(* with its offset, its length and the description of its bytes; a later   *)
(* block hides the bytes of earlier ones.                                  *)

MemFormats == {"P_8_BIT_MEM", "P_10_BIT_MEM", "P_12_BIT_MEM", "P_14_BIT_MEM",
               "P_16_BIT_MEM", "P_16_BIT_MEM_LSB", "P_AF_BIT_MEM"}

Pow2(n) == poor_mans_pow(2, n)

p_get_word_widths(file_data_fmt, mem_data_fmt) ==
    LET file_no_bits ==
            CASE file_data_fmt = "P_8_BIT_FILE" -> 8
              [] file_data_fmt = "P_10_BIT_FILE" -> 10
              [] file_data_fmt = "P_12_BIT_FILE" -> 12
              [] file_data_fmt = "P_14_BIT_FILE" -> 14
              [] file_data_fmt \in {"P_16_BIT_FILE", "P_16_REAL_FILE"} -> 16
              [] OTHER -> 0
        mem_no_bits ==
            CASE mem_data_fmt = "P_8_BIT_MEM" -> 8
              [] mem_data_fmt = "P_10_BIT_MEM" -> 10
              [] mem_data_fmt = "P_12_BIT_MEM" -> 12
              [] mem_data_fmt = "P_14_BIT_MEM" -> 14
              [] mem_data_fmt \in {"P_16_BIT_MEM", "P_16_BIT_MEM_LSB"} -> 16
              [] mem_data_fmt = "P_AF_BIT_MEM" -> file_no_bits
              [] OTHER -> 0
    IN  [status |-> IF mem_data_fmt \notin MemFormats
                    THEN "P_ILLEGAL_MEM_DATA_FORMAT"
                    ELSE IF file_data_fmt \notin FileDataFormats
                    THEN "P_ILLEGAL_FILE_DATA_FORMAT"
                    ELSE "P_OK",
         file_no_bits |-> file_no_bits,
         mem_no_bits |-> mem_no_bits,
         file_type |-> IF file_data_fmt = "P_8_BIT_FILE" THEN "P_UNSIGNED_CHAR"
                       ELSE IF file_data_fmt \in FileDataFormats
                       THEN "P_UNSIGNED_SHORT" ELSE "0"]

\* sizeof of the element type; 0 for an unknown type
p_get_element_size(type) ==
    CASE type = "P_UNSIGNED_CHAR" -> 1
      [] type = "P_UNSIGNED_SHORT" -> 2
      [] OTHER -> 0

Buffer(id, seed, len, junk) ==
    [id |-> id, seed |-> seed, len |-> len, base |-> 0, junk |-> junk]

\* the pointer of a buffer advanced by n elements
Advance(buf, n) == [buf EXCEPT !.base = @ + n]

\* the value the caller stored in element e of buffer id
Pattern(seed, id, e) == 1 + seed + 83 * id + 259 * e

\* element base + e of a buffer whose elements are mem_type
BufSample(buf, mem_type, e) ==
    IF buf.base + e < buf.len
    THEN Pattern(buf.seed, buf.id, buf.base + e)
         % (IF mem_type = "P_UNSIGNED_CHAR" THEN 256 ELSE 65536)
    ELSE IF mem_type = "P_UNSIGNED_CHAR" THEN buf.junk
    ELSE buf.junk + 256 * buf.junk

\* byte i of the memory the pointer of a buffer points to
MemByte(buf, mem_type, i) ==
    IF mem_type = "P_UNSIGNED_CHAR" THEN BufSample(buf, mem_type, i)
    ELSE LET s == BufSample(buf, mem_type, i \div 2)
         IN  IF (i % 2 = 0) = (p_system_is_little_endian = 1)
             THEN s % 256 ELSE s \div 256

\* byte i of a block of the file
BlockByte(b, i) ==
    CASE b.kind = "mem" -> MemByte(b.buf, b.mem_type, i)
      [] b.kind = "conv" ->
            IF b.file_stride = 0 \/ i \div b.file_stride >= b.height
            THEN b.buf.junk
            ELSE LET y == i \div b.file_stride
                     x == (i % b.file_stride) \div b.el_size
                     m == BufSample(b.buf, b.mem_type, y * b.stride + x)
                     sample == (((m % b.mask) \div Pow2(b.shift_right))
                                * Pow2(b.shift_left)) % 65536
                 IN  IF b.el_size = 1 THEN sample % 256
                     ELSE IF (i % 2 = 0) = (b.little_endian # 0)
                     THEN sample % 256 ELSE sample \div 256
      [] b.kind = "text" ->
            IF IsDigit(b.text[i + 1]) THEN 48 + DigitVal(b.text[i + 1])
            ELSE IF b.text[i + 1] = "-" THEN 45 ELSE 32
      [] OTHER -> 0

RECURSIVE ByteAtFrom(_, _, _)
ByteAtFrom(data, k, pos) ==
    IF k = 0 THEN 0
    ELSE IF data[k].off <= pos /\ pos < data[k].off + data[k].len
    THEN BlockByte(data[k], pos - data[k].off)
    ELSE ByteAtFrom(data, k - 1, pos)

\* the byte at offset pos of the data of file f; a byte never written is 0
ByteAt(f, pos) == ByteAtFrom(f.data, Len(f.data), pos)

\* the data of a file after block b is written: the blocks b covers go
StoreBlock(data, b) ==
    LET keep == SelectSeq(data, LAMBDA o :
                    ~(b.off <= o.off /\ o.off + o.len <= b.off + b.len))
    IN  IF b.len = 0 THEN data ELSE Append(keep, b)

\* fseek and fwrite of block b to the open file name
p_write_data(w, name, b) ==
    [w EXCEPT !.disk[name].data = StoreBlock(@, b),
              !.disk[name].size = MAX(@, b.off + b.len),
              !.acc = @ \o << Access("seek", b.off, 0),
                              Access("write", b.off, b.len) >>]

\* the offset without the step over the auxiliary data of the image
OffsetWithoutAux(h, nr, comp_nr) ==
    p_get_size_header(h) + (nr - 1) * p_get_size_image(h)
    + SumCompSizes(h, comp_nr)

\* the offset in the file of component comp_nr (from 0) of image nr
ComponentOffset(h, nr, comp_nr) ==
    p_get_size_header(h) + (nr - 1) * p_get_size_image(h)
    + h.nr_aux_data_recs * h.bytes_rec + SumCompSizes(h, comp_nr)

\* whether the samples pass between memory and file without conversion
SkipConversion(h, ww, mem_type) ==
    /\ mem_type = ww.file_type
    /\ ww.mem_no_bits = ww.file_no_bits
    /\ (ww.mem_no_bits = 8 \/ p_system_is_little_endian = h.little_endian)

NoRead(st, w) == [status |-> st, w |-> w, mem |-> << >>]
NoWrite(st, w) == [status |-> st, w |-> w]

\* the block p_write_image hands to fwrite: the memory of the caller as it
\* is, or the file buffer with the converted samples of the lines
\* 0 .. local_height - 1, local_width samples each
WriteImageBlock(h, nr, comp_nr, buf, mem_type, width, height, stride, ww) ==
    [off |-> ComponentOffset(h, nr, comp_nr),
     len |-> p_get_size_comp(h.comp[comp_nr + 1].pix_line,
                             h.comp[comp_nr + 1].lin_image,
                             h.comp[comp_nr + 1].data_fmt),
     kind |-> IF SkipConversion(h, ww, mem_type) THEN "mem" ELSE "conv",
     buf |-> buf, mem_type |-> mem_type,
     height |-> MIN(height, h.comp[comp_nr + 1].lin_image),
     stride |-> stride,
     file_stride |-> MIN(width, h.comp[comp_nr + 1].pix_line)
                     * p_get_element_size(ww.file_type),
     el_size |-> p_get_element_size(ww.file_type),
     mask |-> Pow2(ww.mem_no_bits),
     shift_left |-> MAX(0, ww.file_no_bits - ww.mem_no_bits),
     shift_right |-> MAX(0, ww.mem_no_bits - ww.file_no_bits),
     little_endian |-> h.little_endian]

\* p_write_image after the file was opened
WriteImageOpened(w, filename, nr, block) ==
    IF w.p_files[filename].fp = 0 THEN NoWrite("P_FILE_MODIFY_FAILED", w)
    ELSE IF block.off < 0
    THEN NoWrite("P_SEEK_FAILED",
                 p_set_file_length(
                     [w EXCEPT !.acc = Append(@, Access("seek", block.off, 0))],
                     filename, nr))
    ELSE NoWrite("P_OK", p_set_file_length(p_write_data(w, filename, block),
                                           filename, nr))

\* p_write_image after p_get_word_widths gave ww
WriteImageChecked(w, filename, h, nr, comp_nr, buf, mem_type, mem_data_fmt, width, height, stride, ww) ==
    IF ww.status # "P_OK" THEN NoWrite(ww.status, w)
    ELSE IF mem_data_fmt \notin {"P_8_BIT_MEM", "P_10_BIT_MEM", "P_12_BIT_MEM",
                                 "P_14_BIT_MEM", "P_16_BIT_MEM"}
    THEN NoWrite("P_ILLEGAL_MEM_DATA_FORMAT", w)
    ELSE WriteImageOpened(
            p_get_file_pointer(w, filename, "p_mode_update", -1), filename, nr,
            WriteImageBlock(h, nr, comp_nr, buf, mem_type, width, height,
                            stride, ww))

\* p_write_image: the whole component goes to the file in one fwrite
p_write_image(w, filename, h, nr, comp_nr, buf, mem_type, mem_data_fmt, width, height, stride) ==
    WriteImageChecked(w, filename, h, nr, comp_nr, buf, mem_type, mem_data_fmt,
        width, height, stride,
        p_get_word_widths(p_get_comp_data_format(h, comp_nr), mem_data_fmt))

\* the file element whose bytes, in file order, are b0 and b1 (b1 is 0 for
\* an 8 bit file)
FileElement(h, ww, b0, b1) ==
    IF ww.file_type = "P_UNSIGNED_CHAR" THEN b0
    ELSE IF h.little_endian # 0 THEN b0 + 256 * b1
    ELSE 256 * b0 + b1

\* the sample p_read_image stores for a file element
ReadSample(h, ww, mem_type, mem_data_fmt, b0, b1) ==
    ((((FileElement(h, ww, b0, b1) % Pow2(ww.file_no_bits))
       \div Pow2(MAX(0, ww.file_no_bits - ww.mem_no_bits)))
      * Pow2(MAX(0, ww.mem_no_bits - ww.file_no_bits)))
     % (IF mem_data_fmt = "P_16_BIT_MEM_LSB" THEN 256 ELSE 65536))
    % (IF mem_type = "P_UNSIGNED_CHAR" THEN 256 ELSE 65536)

\* the sample fread stores when the bytes go to memory as they are
RawSample(mem_type, b0, b1) ==
    IF mem_type = "P_UNSIGNED_CHAR" THEN b0
    ELSE IF p_system_is_little_endian = 1 THEN b0 + 256 * b1
    ELSE 256 * b0 + b1

\* the part of a component p_read_image reads: local_height lines of
\* local_width elements of el bytes, the lines pix_line elements apart
ReadArea(h, nr, comp_nr, mem_type, width, height, ww) ==
    [pix_line |-> h.comp[comp_nr + 1].pix_line,
     local_width |-> MIN(width, h.comp[comp_nr + 1].pix_line),
     local_height |-> MIN(height, h.comp[comp_nr + 1].lin_image),
     el |-> p_get_element_size(ww.file_type),
     offset |-> ComponentOffset(h, nr, comp_nr),
     skip |-> SkipConversion(h, ww, mem_type)]

Rows(g) == 0 .. (g.local_height - 1)
Cols(g) == 0 .. (g.local_width - 1)
RowOff(g, y) == g.offset + y * g.pix_line * g.el
CellPos(g, cell) == RowOff(g, cell[1]) + cell[2] * g.el
CellIdx(buf, stride, cell) == buf.base + cell[1] * stride + cell[2]

\* the least of the lines bad, n when there is none
FirstOf(bad, n) ==
    IF bad = {} THEN n ELSE CHOOSE y \in bad : \A z \in bad : y <= z

\* the line at which the loop over the lines stops: the first the file is
\* too short for
FailRow(f, g) ==
    IF g.offset < 0 THEN 0
    ELSE FirstOf({y \in Rows(g) : RowOff(g, y) + g.local_width * g.el > f.size},
                 g.local_height)

\* the elements of the area that get a value: without conversion those
\* fread delivers, with conversion all, as the conversion runs over the
\* whole buffer whatever was read
Stored(f, g, failRow) ==
    IF g.skip
    THEN {cell \in Rows(g) \X Cols(g) :
            /\ g.offset >= 0
            /\ cell[1] <= failRow
            /\ CellPos(g, cell) + g.el <= f.size}
    ELSE Rows(g) \X Cols(g)

\* of the elements that go to index e of the buffer, the one stored last
LastCell(cells, buf, stride, e) ==
    CHOOSE cell \in cells :
        /\ CellIdx(buf, stride, cell) = e
        /\ \A o \in cells : CellIdx(buf, stride, o) = e => o[1] <= cell[1]

\* the sample stored for an element with the bytes b0 and b1 in the file;
\* a line that was not read has what the buffer held before
StoredSample(h, g, ww, buf, mem_type, mem_data_fmt, wasRead, b0, b1) ==
    IF g.skip THEN RawSample(mem_type, b0, b1)
    ELSE IF wasRead THEN ReadSample(h, ww, mem_type, mem_data_fmt, b0, b1)
    ELSE buf.junk

CellVal(f, h, g, ww, buf, mem_type, mem_data_fmt, failRow, cell) ==
    StoredSample(h, g, ww, buf, mem_type, mem_data_fmt, cell[1] < failRow,
                 ByteAt(f, CellPos(g, cell)),
                 IF g.el = 2 THEN ByteAt(f, CellPos(g, cell) + 1) ELSE 0)

StoredMem(f, h, g, ww, buf, mem_type, mem_data_fmt, stride, failRow, cells) ==
    [k \in {<< buf.id, CellIdx(buf, stride, cell) >> : cell \in cells} |->
        CellVal(f, h, g, ww, buf, mem_type, mem_data_fmt, failRow,
                LastCell(cells, buf, stride, k[2]))]

RECURSIVE RowAccesses(_, _, _)
\* fseek and fread of the lines y .. last
RowAccesses(g, y, last) ==
    IF y > last THEN << >>
    ELSE << Access("seek", RowOff(g, y), 0),
            Access("read", RowOff(g, y), g.local_width * g.el) >>
         \o RowAccesses(g, y + 1, last)

\* the loop of p_read_image over the lines, which stops at line failRow
ReadImageRows(w, f, h, g, ww, buf, mem_type, mem_data_fmt, stride, failRow) ==
    [status |-> IF g.offset < 0 THEN "P_SEEK_FAILED"
                ELSE IF failRow < g.local_height THEN "P_READ_FAILED"
                ELSE "P_OK",
     w |-> [w EXCEPT !.acc =
              IF g.offset < 0 THEN Append(@, Access("seek", g.offset, 0))
              ELSE @ \o RowAccesses(g, 0, MIN(failRow, g.local_height - 1))],
     mem |-> StoredMem(f, h, g, ww, buf, mem_type, mem_data_fmt, stride,
                       failRow, Stored(f, g, failRow))]

\* p_read_image after the file was opened
ReadImageOpened(w, filename, h, g, ww, buf, mem_type, mem_data_fmt, stride) ==
    IF w.p_files[filename].fp = 0 THEN NoRead("P_FILE_OPEN_FAILED", w)
    ELSE ReadImageRows(w, w.disk[filename], h, g, ww, buf, mem_type,
                       mem_data_fmt, stride, FailRow(w.disk[filename], g))

\* p_read_image after p_get_word_widths gave ww
ReadImageChecked(w, filename, h, nr, comp_nr, buf, mem_type, mem_data_fmt, width, height, stride, ww) ==
    IF ww.status # "P_OK" THEN NoRead(ww.status, w)
    ELSE IF mem_type = "P_UNSIGNED_CHAR" /\ mem_data_fmt = "P_AF_BIT_MEM"
    THEN NoRead("P_ILLEGAL_MEM_DATA_FORMAT", w)
    ELSE IF mem_type \notin {"P_UNSIGNED_CHAR", "P_UNSIGNED_SHORT"}
    THEN NoRead("P_UNKNOWN_MEM_TYPE", w)
    ELSE ReadImageOpened(
            p_get_file_pointer(w, filename, "p_mode_read", -1), filename, h,
            ReadArea(h, nr, comp_nr, mem_type, width, height, ww), ww, buf,
            mem_type, mem_data_fmt, stride)

\* p_read_image: the component is read line by line; mem maps <<id, e>> to
\* the sample stored in element e of the caller's buffer id
p_read_image(w, filename, h, nr, comp_nr, buf, mem_type, mem_data_fmt, width, height, stride) ==
    ReadImageChecked(w, filename, h, nr, comp_nr, buf, mem_type, mem_data_fmt,
        width, height, stride,
        p_get_word_widths(p_get_comp_data_format(h, comp_nr), mem_data_fmt))

----------------------------------------------------------------------------
(* cpfspd_low.c and cpfspd_aux.c: auxiliary data *)

P_SDATA_LEN == 8

\* the character a byte of the file is
ByteChar(b) ==
    IF b = 0 \/ b = 32 THEN " "
    ELSE IF b >= 48 /\ b <= 57 THEN DigitChars[b - 47]
    ELSE "?"

\* the new header fits into the array, the sentinel after it left out
FitsWithoutSentinel(offset, descr_len) ==
    ~(offset + P_SMIN_VALID + descr_len > P_SAUX_HDR)

\* the new header with the sentinel after it fits into the array
AuxFits(offset, descr_len) ==
    ~(offset + P_SMIN_VALID + descr_len + P_SAUX_HDRLEN + 1 > P_SAUX_HDR)

\* the text sprintf makes of an auxiliary header
AuxHeaderText(max_size, name, descr_len) ==
    FmtInt(P_SMIN_VALID + descr_len, P_SAUX_HDRLEN)
    \o PadRight(StrChars(name), P_SAUX_NAME)
    \o FmtInt(max_size, P_SMAX_LEN)
    \o PadRight(<< " " >>, P_SRESERVED)

\* the array with the description of descr_len bytes at offset
WithDescription(aux_hdrs, offset, descr_len, description) ==
    IF descr_len > 0
    THEN StoreBytes(aux_hdrs, offset, << Run(description, descr_len) >>)
    ELSE aux_hdrs

\* the array with a new header at offset, and the sentinel after it
WithAuxHeader(aux_hdrs, offset, max_size, name, descr_len, description) ==
    StoreBytes(
        WithDescription(
            StoreBytes(aux_hdrs, offset,
                       StringRuns(AuxHeaderText(max_size, name, descr_len))),
            offset + P_SMIN_VALID, descr_len, description),
        offset + P_SMIN_VALID + descr_len, StringRuns(P_AUX_LAST))

\* the header with the number of records the auxiliary data of an image
\* take
WithAuxDataRecs(h) ==
    [h EXCEPT !.nr_aux_data_recs =
        (p_aux_get_total(h.aux_hdrs) + h.bytes_rec - 1) \div h.bytes_rec]

\* p_mod_add_aux: the value it returns, the id of the new auxiliary header,
\* or -1 when the name is taken or the space is used up
p_mod_add_aux_result(h, max_size, name, descr_len) ==
    IF p_get_aux_by_name(h, name) >= 0 THEN -1
    ELSE IF ~AuxFits(ChainEnd(h.aux_hdrs, AuxChain(h.aux_hdrs, 0)), descr_len)
    THEN -1
    ELSE p_get_num_aux(h)

\* p_mod_add_aux: the header afterwards; the description is descr_len
\* times the byte description
p_mod_add_aux(h, max_size, name, descr_len, description) ==
    IF p_mod_add_aux_result(h, max_size, name, descr_len) = -1 THEN h
    ELSE [WithAuxDataRecs(
            [h EXCEPT !.aux_hdrs =
                WithAuxHeader(@, ChainEnd(@, AuxChain(@, 0)), max_size, name,
                              descr_len, description)])
          EXCEPT !.modified = 1]

\* memmove within the array
MoveBytes(r, dst, src, n) == StoreBytes(r, dst, TakeBytes(DropBytes(r, src), n))

\* a memset that sets nothing
NothingSet(r, offset, b, n) == r

\* memset
SetBytes(r, offset, b, n) == StoreBytes(r, offset, << Run(b, n) >>)

\* the array without the header of len bytes at offset: the bytes after it
\* moved forwards, and the space set free cleared
WithoutAuxHeader(aux_hdrs, offset, len) ==
    SetBytes(MoveBytes(aux_hdrs, offset, offset + len,
                       P_SAUX_HDR - offset - len),
             P_SAUX_HDR - len, NUL, len)

\* header aux_id of the chain removed
RemoveAux(h, chain, aux_id) ==
    [WithAuxDataRecs(
        [h EXCEPT !.aux_hdrs =
            WithoutAuxHeader(@, chain[aux_id + 1],
                             AuxLen(@, chain[aux_id + 1]))])
     EXCEPT !.modified = 1]

\* aux_id counts from 0
p_mod_rm_aux(h, aux_id) ==
    IF aux_id < 0 \/ aux_id >= p_get_num_aux(h)
    THEN Ret("P_INVALID_AUXILIARY", [h EXCEPT !.modified = 1])
    ELSE Ret("P_OK", RemoveAux(h, AuxChain(h.aux_hdrs, 0), aux_id))

\* the offset in the file of the auxiliary data at data_offset of image nr
AuxOffset(h, image_no, data_offset) ==
    p_get_size_header(h) + (image_no - 1) * p_get_size_image(h) + data_offset

\* p_write_aux_data after the file was opened: the size as a text of
\* P_SDATA_LEN characters, then the data
WriteAuxOpened(w, filename, offset, size, buf) ==
    IF w.p_files[filename].fp = 0 THEN NoWrite("P_FILE_OPEN_FAILED", w)
    ELSE IF offset < 0
    THEN NoWrite("P_SEEK_FAILED",
                 [w EXCEPT !.acc = Append(@, Access("seek", offset, 0))])
    ELSE IF size <= 0
    THEN NoWrite("P_OK", [w EXCEPT !.acc = Append(@, Access("seek", offset, 0))])
    ELSE NoWrite("P_OK",
            p_write_data(
                p_write_data(w, filename,
                    [off |-> offset, len |-> P_SDATA_LEN, kind |-> "text",
                     text |-> FmtInt(size, P_SDATA_LEN)]),
                filename,
                [off |-> offset + P_SDATA_LEN, len |-> size, kind |-> "mem",
                 buf |-> buf, mem_type |-> "P_UNSIGNED_CHAR"]))

p_write_aux_data(w, filename, h, image_no, data_offset, size, buf) ==
    WriteAuxOpened(p_get_file_pointer(w, filename, "p_mode_update", -1),
                   filename, AuxOffset(h, image_no, data_offset), size, buf)

AuxRead(st, w, size, mem) ==
    [status |-> st, w |-> w, size |-> size, mem |-> mem]

\* the library state after the accesses more
Accessed(w, more) == [w EXCEPT !.acc = @ \o more]

\* the second p_read_data of p_read_aux_data: size bytes into the buffer
ReadAuxBytes(w, f, offset, size, buf) ==
    AuxRead(IF offset + size > f.size THEN "P_READ_FAILED" ELSE "P_OK",
            Accessed(w, << Access("read", offset, size) >>), size,
            [k \in {<< buf.id, i >> :
                        i \in {j \in 0 .. (size - 1) : offset + j < f.size}} |->
                ByteAt(f, offset + k[2])])

\* p_read_aux_data after the P_SDATA_LEN characters temp of the size were
\* read
ReadAuxSize(w, f, offset, temp, buf) ==
    IF p_parse_get_int_status(temp, 0, P_SDATA_LEN) # "P_OK"
    THEN AuxRead(p_parse_get_int_status(temp, 0, P_SDATA_LEN), w, 0, << >>)
    ELSE IF p_parse_get_int(temp, 0, P_SDATA_LEN) = 0
    THEN AuxRead("P_OK", w, 0, << >>)
    ELSE ReadAuxBytes(w, f, offset + P_SDATA_LEN,
                      p_parse_get_int(temp, 0, P_SDATA_LEN), buf)

\* p_read_aux_data after the file was opened
ReadAuxOpened(w, filename, offset, buf) ==
    IF w.p_files[filename].fp = 0
    THEN AuxRead("P_FILE_OPEN_FAILED", w, 0, << >>)
    ELSE IF offset < 0
    THEN AuxRead("P_SEEK_FAILED",
                 Accessed(w, << Access("seek", offset, 0) >>), 0, << >>)
    ELSE IF offset + P_SDATA_LEN > w.disk[filename].size
    THEN AuxRead("P_READ_FAILED",
                 Accessed(w, << Access("seek", offset, 0),
                                Access("read", offset, P_SDATA_LEN) >>),
                 0, << >>)
    ELSE ReadAuxSize(Accessed(w, << Access("seek", offset, 0),
                                    Access("read", offset, P_SDATA_LEN) >>),
                     w.disk[filename], offset,
                     [i \in 1..P_SDATA_LEN |->
                        ByteChar(ByteAt(w.disk[filename], offset + i - 1))],
                     buf)

\* size is the size read from the file, mem the bytes stored in the buffer
p_read_aux_data(w, filename, h, image_no, data_offset, buf) ==
    ReadAuxOpened(p_get_file_pointer(w, filename, "p_mode_read", -1), filename,
                  AuxOffset(h, image_no, data_offset), buf)

\* the image a frame, or a field of a frame, is
AuxImage(frame, field) == IF field > 0 THEN 2 * (frame - 1) + field ELSE frame

p_read_aux(w, filename, h, frame, field, aux_id, buf) ==
    IF aux_id < 0 \/ aux_id >= p_get_num_aux(h)
    THEN AuxRead("P_INVALID_AUXILIARY", w, 0, << >>)
    ELSE IF p_get_aux_max_size(h, aux_id) > 0
    THEN p_read_aux_data(w, filename, h, AuxImage(frame, field),
                         p_aux_get_data_offset(h.aux_hdrs, aux_id), buf)
    ELSE AuxRead("P_OK", w, 0, << >>)

p_write_aux(w, filename, h, frame, field, aux_id, size, buf) ==
    IF aux_id < 0 \/ aux_id >= p_get_num_aux(h)
    THEN NoWrite("P_INVALID_AUXILIARY", w)
    ELSE IF size > p_get_aux_max_size(h, aux_id)
    THEN NoWrite("P_EXCEEDING_AUXILIARY_DATA_SIZE", w)
    ELSE p_write_aux_data(w, filename, h, AuxImage(frame, field),
                          p_aux_get_data_offset(h.aux_hdrs, aux_id), size, buf)

----------------------------------------------------------------------------
(* cpfspd_aux.c: the floats of 16 bits.  An IEEE 754 float is the record   *)
(* of the three fields of its 32 bits: the sign, the exponent of 8 bits    *)
(* and the mantissa of 23 bits.                                            *)

F32(sign, exponent, mantissa) ==
    [sign |-> sign, exponent |-> exponent, mantissa |-> mantissa]

RECURSIVE NormalizeF16(_, _)
\* the loop that shifts the mantissa of an unnormalized number until bit
\* 10 is set
NormalizeF16(exponent, mantissa) ==
    IF (mantissa \div 1024) % 2 # 0 THEN << exponent, mantissa >>
    ELSE NormalizeF16(exponent - 1, mantissa * 2)

\* unnormalized numbers are taken for zero
F16ToFloatFlushed(f16) ==
    IF ((f16 % 65536) \div 1024) % 32 = 31
    THEN F32((f16 % 65536) \div 32768, 255, (f16 % 1024) * 8192)
    ELSE IF ((f16 % 65536) \div 1024) % 32 = 0
    THEN F32((f16 % 65536) \div 32768, 0, 0)
    ELSE F32((f16 % 65536) \div 32768, (((f16 % 65536) \div 1024) % 32) + 112,
             (f16 % 1024) * 8192)

\* f16 is an unsigned short
p_cce_f16_to_float(f16) ==
    LET sign == (f16 % 65536) \div 32768
        exponent == ((f16 % 65536) \div 1024) % 32
        mantissa == f16 % 1024
        n == NormalizeF16(127 - 15, mantissa)
    IN  IF exponent = 31 THEN F32(sign, 255, mantissa * 8192)
        ELSE IF exponent = 0
        THEN (IF mantissa # 0
              THEN F32(sign, n[1] + 1, (n[2] % 1024) * 8192)
              ELSE F32(sign, 0, 0))
        ELSE F32(sign, exponent + (127 - 15), mantissa * 8192)

\* the regular numbers: the mantissa rounded, and the exponent one more
\* when the rounding carries out of the mantissa
F16Regular(sign, exponent, rounded) ==
    IF (IF rounded >= 8388608 THEN exponent + 1 ELSE exponent) > 30
    THEN sign + 31 * 1024
    ELSE IF rounded >= 8388608 THEN sign + (exponent + 1) * 1024
    ELSE sign + exponent * 1024 + rounded \div 8192

\* the result is an unsigned short
p_cce_float_to_f16(f32) ==
    LET sign == f32.sign * 32768
        exponent == f32.exponent - (127 - 15)
        mantissa == f32.mantissa
    IN  IF f32.exponent = 0 /\ mantissa = 0 THEN sign
        ELSE IF f32.exponent = 255
        THEN (IF mantissa = 0 THEN sign + 31 * 1024
              ELSE IF mantissa \div 8192 = 0 THEN sign + 31 * 1024 + 1
              ELSE sign + 31 * 1024 + mantissa \div 8192)
        ELSE IF exponent < -9 THEN sign
        ELSE IF exponent <= 0
        THEN sign + (((mantissa + 8388608) \div Pow2(1 - exponent)) + 4096)
                    \div 8192
        ELSE F16Regular(sign, exponent, mantissa + 4096)

RECURSIVE FractionBits(_, _, _, _)
\* the quotient num / den < 2 in binary, n bits after the point, and the
\* rest of the division
FractionBits(num, den, n, q) ==
    IF n = 0 THEN << q, num >>
    ELSE IF num >= den THEN FractionBits(2 * (num - den), den, n - 1, 2 * q + 1)
    ELSE FractionBits(2 * num, den, n - 1, 2 * q)

RECURSIVE FloatScaled(_, _, _, _)
\* the float nearest to num / den * 2 ^ (exponent - 127), num and den
\* positive: the compiler's conversion of a literal
FloatScaled(sign, num, den, exponent) ==
    IF num >= 2 * den THEN FloatScaled(sign, num, 2 * den, exponent + 1)
    ELSE IF num < den THEN FloatScaled(sign, 2 * num, den, exponent - 1)
    ELSE LET b == FractionBits(num, den, 24, 0)
             up == b[2] > den \/ (b[2] = den /\ b[1] % 2 = 1)
             m == b[1] + (IF up THEN 1 ELSE 0)
         IN  IF m >= 16777216 THEN F32(sign, exponent + 1, 0)
             ELSE F32(sign, exponent, m - 8388608)

\* the float of the literal -num/den (sign 1) or num/den (sign 0)
FloatLiteral(sign, num, den) == FloatScaled(sign, num, den, 127)

\* sizeof(float) is sizeof(p_uint32) on the platforms of the library
p_cce_check_float_conversion ==
    IF p_cce_f16_to_float(53568) # FloatLiteral(1, 42, 1)
    THEN "P_INCOMP_FLOAT_CONVERSION"
    ELSE IF p_cce_float_to_f16(FloatLiteral(0, 65504, 1)) # 31743
    THEN "P_INCOMP_FLOAT_CONVERSION"
    ELSE IF p_cce_float_to_f16(FloatLiteral(1, 65536, 1)) # 64512
    THEN "P_INCOMP_FLOAT_CONVERSION"
    ELSE IF p_cce_float_to_f16(FloatLiteral(0, 123, 10000)) # 8780
    THEN "P_INCOMP_FLOAT_CONVERSION"
    ELSE IF \E i \in 0..31744 :
               \/ p_cce_float_to_f16(p_cce_f16_to_float(i)) # i
               \/ p_cce_float_to_f16(p_cce_f16_to_float(i + 32768)) # i + 32768
    THEN "P_INCOMP_FLOAT_CONVERSION"
    ELSE "P_OK"

----------------------------------------------------------------------------
(* cpfspd_rwi.c: reading and writing fields and frames.  A read mode is a  *)
(* record of the component mode and the memory data format, bufs are the   *)
(* three buffers of a call and strides their strides.                      *)

P_NORMAL_COMP == -1

ComponentModes == {"P_READ_Y", "P_READ_ALL", "P_READ_UV", "P_READ_U",
                   "P_READ_V", "P_READ_R", "P_READ_G", "P_READ_B"}

\* the samples of mem, and over them those of more
Merge(mem, more) ==
    [k \in DOMAIN mem \cup DOMAIN more |->
        IF k \in DOMAIN more THEN more[k] ELSE mem[k]]

\* the buffers of a colour format
ReadAllOf(color_format) ==
    CASE color_format \in {"P_NO_COLOR", "P_STREAM"} -> << TRUE, FALSE, FALSE >>
      [] color_format \in {"P_COLOR_422", "P_COLOR_420"} -> << TRUE, TRUE, FALSE >>
      [] OTHER -> << TRUE, TRUE, TRUE >>

\* every component mode reads what P_READ_ALL reads
ReadsAllComponents(color_format, component_mode) ==
    [status |-> "P_OK", read |-> ReadAllOf(color_format)]

\* the components p_read_buffers reads for a colour format and a component
\* mode, with the status when the mode does not fit the format
ReadSelection(color_format, component_mode) ==
    LET Sel(a, b, c) == [status |-> "P_OK", read |-> << a, b, c >>]
        No(st) == [status |-> st, read |-> << FALSE, FALSE, FALSE >>]
        m == component_mode
    IN  CASE color_format = "P_NO_COLOR" ->
                IF m = "P_READ_Y" THEN Sel(TRUE, FALSE, FALSE)
                ELSE IF m \in {"P_READ_ALL", "P_READ_UV", "P_READ_U", "P_READ_V"}
                THEN No("P_READ_CHR_FROM_LUM_ONLY")
                ELSE No("P_READ_RGB_FROM_LUM_ONLY")
          [] color_format \in {"P_COLOR_422", "P_COLOR_420"} ->
                CASE m = "P_READ_ALL" -> Sel(TRUE, TRUE, FALSE)
                  [] m = "P_READ_Y" -> Sel(TRUE, FALSE, FALSE)
                  [] m = "P_READ_UV" -> Sel(FALSE, TRUE, FALSE)
                  [] m \in {"P_READ_U", "P_READ_V"} ->
                        No("P_READ_PLANAR_CHR_FROM_MULT_CHR")
                  [] OTHER -> No("P_READ_RGB_FROM_YUV")
          [] color_format \in {"P_COLOR_444_PL", "P_COLOR_422_PL",
                               "P_COLOR_420_PL"} ->
                CASE m = "P_READ_ALL" -> Sel(TRUE, TRUE, TRUE)
                  [] m = "P_READ_Y" -> Sel(TRUE, FALSE, FALSE)
                  [] m = "P_READ_UV" -> Sel(FALSE, TRUE, TRUE)
                  [] m = "P_READ_U" -> Sel(FALSE, TRUE, FALSE)
                  [] m = "P_READ_V" -> Sel(FALSE, FALSE, TRUE)
                  [] OTHER -> No("P_READ_RGB_FROM_YUV")
          [] color_format \in {"P_COLOR_RGB", "P_COLOR_XYZ"} ->
                CASE m \in {"P_READ_ALL", "P_READ_Y"} -> Sel(TRUE, TRUE, TRUE)
                  [] m = "P_READ_R" -> Sel(TRUE, FALSE, FALSE)
                  [] m = "P_READ_G" -> Sel(FALSE, TRUE, FALSE)
                  [] m = "P_READ_B" -> Sel(FALSE, FALSE, TRUE)
                  [] OTHER -> No("P_READ_CHR_FROM_RGB")
          [] color_format = "P_STREAM" ->
                IF m \in {"P_READ_ALL", "P_READ_Y"} THEN Sel(TRUE, FALSE, FALSE)
                ELSE IF m \in {"P_READ_UV", "P_READ_U", "P_READ_V"}
                THEN No("P_READ_CHR_FROM_STREAM")
                ELSE No("P_READ_RGB_FROM_STREAM")
          [] OTHER -> No("P_OK")

\* the components p_write_buffers writes for a colour format
WriteSelection(color_format) ==
    CASE color_format \in {"P_NO_COLOR", "P_STREAM"} -> << TRUE, FALSE, FALSE >>
      [] color_format \in {"P_COLOR_422", "P_COLOR_420"} -> << TRUE, TRUE, FALSE >>
      [] color_format \in {"P_COLOR_444_PL", "P_COLOR_422_PL", "P_COLOR_420_PL",
                           "P_COLOR_RGB", "P_COLOR_XYZ"} -> << TRUE, TRUE, TRUE >>
      [] OTHER -> << FALSE, FALSE, FALSE >>

\* the image of a field counted as that of a frame of two fields less
FieldOfFrame(frame, field, is_field) ==
    IF is_field THEN 2 * (frame - 1) + field - 1 ELSE frame

\* the image a frame, or a field of a frame, is
ImageNumber(frame, field, is_field) ==
    IF is_field THEN 2 * (frame - 1) + field ELSE frame

\* width and height of buffer i (from 0), from those of the luminance
BufWidth(h, color_format, i, width) ==
    (width \div h.comp[i + 1].pix_sbsmpl)
    * (IF i = 1 /\ color_format \in {"P_COLOR_422", "P_COLOR_420"} THEN 2 ELSE 1)
BufHeight(h, i, height) == height \div h.comp[i + 1].lin_sbsmpl

\* the component of the file that goes with buffer i (from 0)
CompNr(comp, i) == IF i = 0 /\ comp # P_NORMAL_COMP THEN comp ELSE i

\* whether the division by the subsampling factors of a selected component
\* is a division by zero
DividesByZero(h, sel) ==
    \E i \in 1..3 : sel[i] /\ (h.comp[i].pix_sbsmpl = 0 \/ h.comp[i].lin_sbsmpl = 0)

\* what p_read_buffers and p_write_buffers pass on to the calls for the
\* single buffers
BufferArgs(filename, h, color_format, image_number, comp, bufs, mem_type, mem_data_fmt, width, height, strides) ==
    [filename |-> filename, h |-> h, color_format |-> color_format,
     image_number |-> image_number, comp |-> comp, bufs |-> bufs,
     mem_type |-> mem_type, mem_data_fmt |-> mem_data_fmt, width |-> width,
     height |-> height, strides |-> strides]

\* the result of a read after that of the reads before it
MergeRead(r, x) == [x EXCEPT !.mem = Merge(r.mem, @)]

RECURSIVE ReadBuffersFrom(_, _, _, _)
\* the calls of p_read_image for the buffers i .. 2 that sel selects, as
\* long as the status is P_OK
ReadBuffersFrom(r, a, sel, i) ==
    IF i > 2 THEN r
    ELSE IF r.status # "P_OK" \/ ~sel[i + 1] THEN ReadBuffersFrom(r, a, sel, i + 1)
    ELSE ReadBuffersFrom(
            MergeRead(r, p_read_image(r.w, a.filename, a.h, a.image_number,
                            CompNr(a.comp, i), a.bufs[i + 1], a.mem_type,
                            a.mem_data_fmt,
                            BufWidth(a.h, a.color_format, i, a.width),
                            BufHeight(a.h, i, a.height), a.strides[i + 1])),
            a, sel, i + 1)

ReadBuffersSelected(w, a, sel) ==
    IF DividesByZero(a.h, sel.read) THEN NoRead(Undefined, w)
    ELSE ReadBuffersFrom(NoRead(sel.status, w), a, sel.read, 0)

p_read_buffers(w, filename, h, color_format, frame, field, comp, read_field, bufs, mem_type, read_mode, width, height, strides) ==
    ReadBuffersSelected(w,
        BufferArgs(filename, h, color_format,
                   ImageNumber(frame, field, read_field), comp, bufs, mem_type,
                   read_mode.mem_data_fmt, width, height, strides),
        IF comp # P_NORMAL_COMP
        THEN [status |-> "P_OK", read |-> << TRUE, FALSE, FALSE >>]
        ELSE ReadSelection(color_format, read_mode.component_mode))

RECURSIVE WriteBuffersFrom(_, _, _, _)
\* the calls of p_write_image for the buffers i .. 2 that sel selects, as
\* long as the status is P_OK
WriteBuffersFrom(r, a, sel, i) ==
    IF i > 2 THEN r
    ELSE IF r.status # "P_OK" \/ ~sel[i + 1] THEN WriteBuffersFrom(r, a, sel, i + 1)
    ELSE WriteBuffersFrom(
            p_write_image(r.w, a.filename, a.h, a.image_number,
                          CompNr(a.comp, i), a.bufs[i + 1], a.mem_type,
                          a.mem_data_fmt,
                          BufWidth(a.h, a.color_format, i, a.width),
                          BufHeight(a.h, i, a.height), a.strides[i + 1]),
            a, sel, i + 1)

WriteBuffersSelected(w, a, sel) ==
    IF DividesByZero(a.h, sel) THEN NoWrite(Undefined, w)
    ELSE WriteBuffersFrom(NoWrite("P_OK", w), a, sel, 0)

p_write_buffers(w, filename, h, color_format, frame, field, comp, write_field, bufs, mem_type, write_mode, width, height, strides) ==
    WriteBuffersSelected(w,
        BufferArgs(filename, h, color_format,
                   ImageNumber(frame, field, write_field), comp, bufs, mem_type,
                   write_mode, width, height, strides),
        IF comp # P_NORMAL_COMP THEN << TRUE, FALSE, FALSE >>
        ELSE WriteSelection(color_format))

p_get_strides(color_format, stride, uv_stride) ==
    IF color_format \in {"P_COLOR_422", "P_COLOR_420", "P_COLOR_444_PL",
                         "P_COLOR_422_PL", "P_COLOR_420_PL"}
       /\ uv_stride # 0
    THEN << stride, uv_stride, uv_stride >>
    ELSE << stride, stride, stride >>

Twice(strides) == [i \in 1..3 |-> 2 * strides[i]]
SecondField(bufs, strides) == [i \in 1..3 |-> Advance(bufs[i], strides[i])]

p_read_field_all(w, filename, h, color_format, frame, field, comp, bufs, mem_type, read_mode, width, fld_height, stride, uv_stride) ==
    IF p_is_progressive(h) # 0 THEN NoRead("P_SHOULD_BE_INTERLACED", w)
    ELSE p_read_buffers(w, filename, h, color_format, frame, field, comp, TRUE,
                        bufs, mem_type, read_mode, width, fld_height,
                        p_get_strides(color_format, stride, uv_stride))

\* a call of p_read_buffers or p_write_buffers by a frame function
Pass(field, is_field, bufs, height, strides) ==
    [field |-> field, is_field |-> is_field, bufs |-> bufs, height |-> height,
     strides |-> strides]

\* the calls a frame function makes: for an interlaced file the two fields,
\* each with half the lines at twice the stride, the second a line further
\* on; else the frame
Passes(h, bufs, frm_height, strides) ==
    IF p_is_interlaced(h) # 0
    THEN << Pass(1, TRUE, bufs, frm_height \div 2, Twice(strides)),
            Pass(2, TRUE, SecondField(bufs, strides), frm_height \div 2,
                 Twice(strides)) >>
    ELSE << Pass(0, FALSE, bufs, frm_height, strides) >>

RECURSIVE ReadPasses(_, _, _, _, _, _, _, _, _, _, _)
ReadPasses(r, filename, h, color_format, frame, comp, mem_type, read_mode, width, passes, i) ==
    IF i > Len(passes) \/ r.status # "P_OK" THEN r
    ELSE ReadPasses(
            MergeRead(r, p_read_buffers(r.w, filename, h, color_format, frame,
                            passes[i].field, comp, passes[i].is_field,
                            passes[i].bufs, mem_type, read_mode, width,
                            passes[i].height, passes[i].strides)),
            filename, h, color_format, frame, comp, mem_type, read_mode, width,
            passes, i + 1)

\* the frame read as the lines of a progressive file, whatever the file is
ReadFrameInOnePass(w, filename, h, color_format, frame, comp, bufs, mem_type, read_mode, width, frm_height, stride, uv_stride) ==
    ReadPasses(NoRead("P_OK", w), filename, h, color_format, frame, comp,
               mem_type, read_mode, width,
               << Pass(0, FALSE, bufs, frm_height,
                       p_get_strides(color_format, stride, uv_stride)) >>, 1)

p_read_frame_all(w, filename, h, color_format, frame, comp, bufs, mem_type, read_mode, width, frm_height, stride, uv_stride) ==
    ReadPasses(NoRead("P_OK", w), filename, h, color_format, frame, comp,
               mem_type, read_mode, width,
               Passes(h, bufs, frm_height,
                      p_get_strides(color_format, stride, uv_stride)), 1)

p_write_field_all(w, filename, h, color_format, frame, field, comp, bufs, mem_type, write_mode, width, fld_height, stride, uv_stride) ==
    IF p_is_progressive(h) # 0 THEN NoWrite("P_SHOULD_BE_INTERLACED", w)
    ELSE p_write_buffers(w, filename, h, color_format, frame, field, comp, TRUE,
                         bufs, mem_type, write_mode, width, fld_height,
                         p_get_strides(color_format, stride, uv_stride))

RECURSIVE WritePasses(_, _, _, _, _, _, _, _, _, _, _)
WritePasses(r, filename, h, color_format, frame, comp, mem_type, write_mode, width, passes, i) ==
    IF i > Len(passes) \/ r.status # "P_OK" THEN r
    ELSE WritePasses(
            p_write_buffers(r.w, filename, h, color_format, frame,
                            passes[i].field, comp, passes[i].is_field,
                            passes[i].bufs, mem_type, write_mode, width,
                            passes[i].height, passes[i].strides),
            filename, h, color_format, frame, comp, mem_type, write_mode, width,
            passes, i + 1)

p_write_frame_all(w, filename, h, color_format, frame, comp, bufs, mem_type, write_mode, width, frm_height, stride, uv_stride) ==
    WritePasses(NoWrite("P_OK", w), filename, h, color_format, frame, comp,
                mem_type, write_mode, width,
                Passes(h, bufs, frm_height,
                       p_get_strides(color_format, stride, uv_stride)), 1)

AlwaysUnmodified(h) == "P_OK"
p_check_modified(h) ==
    IF h.modified = 1 THEN "P_HEADER_IS_MODIFIED" ELSE "P_OK"

p_check_multiplexed(color_format) ==
    IF color_format \notin {"P_NO_COLOR", "P_COLOR_422", "P_COLOR_420"}
    THEN "P_INCOMP_MULT_COLOR_FORMAT" ELSE "P_OK"

p_check_multi_or_stream(color_format) ==
    IF color_format \notin {"P_NO_COLOR", "P_COLOR_422", "P_COLOR_420",
                            "P_STREAM"}
    THEN "P_INCOMP_MULT_COLOR_FORMAT" ELSE "P_OK"

p_check_planar(color_format) ==
    IF color_format \notin {"P_NO_COLOR", "P_COLOR_444_PL", "P_COLOR_422_PL",
                            "P_COLOR_420_PL", "P_COLOR_RGB", "P_COLOR_XYZ"}
    THEN "P_INCOMP_PLANAR_COLOR_FORMAT" ELSE "P_OK"

p_check_comp(h, comp, reading) ==
    IF comp < 0 \/ comp >= h.nr_compon
    THEN (IF reading THEN "P_READ_INVALID_COMPONENT"
                     ELSE "P_WRITE_INVALID_COMPONENT")
    ELSE "P_OK"

\* the first of three statuses that is not P_OK
FirstError(a, b, c) ==
    IF a # "P_OK" THEN a ELSE IF b # "P_OK" THEN b ELSE c

\* the checks the external functions make before any access: the status of
\* the first that fails; format_check is the status of the check of the
\* colour format
Checks(h, format_check) ==
    FirstError(p_check_modified(h), p_check_header(h), format_check)

\* the checks of the functions that access one component
CompChecks(h, comp, reading) ==
    FirstError(p_check_modified(h), p_check_comp(h, comp, reading), "P_OK")

\* an external function after its checks gave st: the access is made when
\* all of them passed
ReadFieldChecked(st, w, filename, h, color_format, frame, field, comp, bufs, mem_type, read_mode, width, fld_height, stride, uv_stride) ==
    IF st # "P_OK" THEN NoRead(st, w)
    ELSE p_read_field_all(w, filename, h, color_format, frame, field, comp,
             bufs, mem_type, read_mode, width, fld_height, stride, uv_stride)

ReadFrameChecked(st, w, filename, h, color_format, frame, comp, bufs, mem_type, read_mode, width, frm_height, stride, uv_stride) ==
    IF st # "P_OK" THEN NoRead(st, w)
    ELSE p_read_frame_all(w, filename, h, color_format, frame, comp, bufs,
             mem_type, read_mode, width, frm_height, stride, uv_stride)

WriteFieldChecked(st, w, filename, h, color_format, frame, field, comp, bufs, mem_type, write_mode, width, fld_height, stride, uv_stride) ==
    IF st # "P_OK" THEN NoWrite(st, w)
    ELSE p_write_field_all(w, filename, h, color_format, frame, field, comp,
             bufs, mem_type, write_mode, width, fld_height, stride, uv_stride)

WriteFrameChecked(st, w, filename, h, color_format, frame, comp, bufs, mem_type, write_mode, width, frm_height, stride, uv_stride) ==
    IF st # "P_OK" THEN NoWrite(st, w)
    ELSE p_write_frame_all(w, filename, h, color_format, frame, comp, bufs,
             mem_type, write_mode, width, frm_height, stride, uv_stride)

----------------------------------------------------------------------------
(* cpfspd_rwi.c: the external functions.  bufs holds the buffers of the     *)
(* call in the order of its arguments, a buffer the function does not take *)
(* is never used.                                                          *)

p_read_field(w, filename, h, frame, field, bufs, read_mode, width, fld_height, stride) ==
    ReadFieldChecked(Checks(h, p_check_multiplexed(p_get_color_format(h))), w,
        filename, h, p_get_color_format(h), frame, field, P_NORMAL_COMP, bufs,
        "P_UNSIGNED_CHAR", read_mode, width, fld_height, stride, 0)

p_read_frame(w, filename, h, frame, bufs, read_mode, width, frm_height, stride) ==
    ReadFrameChecked(Checks(h,
        p_check_multi_or_stream(p_get_color_format(h))), w, filename, h,
        p_get_color_format(h), frame, P_NORMAL_COMP, bufs, "P_UNSIGNED_CHAR",
        read_mode, width, frm_height, stride, 0)

p_write_field(w, filename, h, frame, field, bufs, width, fld_height, stride) ==
    WriteFieldChecked(Checks(h, p_check_multiplexed(p_get_color_format(h))),
        w, filename, h, p_get_color_format(h), frame, field, P_NORMAL_COMP,
        bufs, "P_UNSIGNED_CHAR", "P_8_BIT_MEM", width, fld_height, stride, 0)

p_write_frame(w, filename, h, frame, bufs, width, frm_height, stride) ==
    WriteFrameChecked(Checks(h,
        p_check_multi_or_stream(p_get_color_format(h))), w, filename, h,
        p_get_color_format(h), frame, P_NORMAL_COMP, bufs, "P_UNSIGNED_CHAR",
        "P_8_BIT_MEM", width, frm_height, stride, 0)

p_read_field_16(w, filename, h, frame, field, bufs, read_mode, width, fld_height, stride) ==
    ReadFieldChecked(Checks(h, p_check_multiplexed(p_get_color_format(h))), w,
        filename, h, p_get_color_format(h), frame, field, P_NORMAL_COMP, bufs,
        "P_UNSIGNED_SHORT", read_mode, width, fld_height, stride, 0)

p_read_frame_16(w, filename, h, frame, bufs, read_mode, width, frm_height, stride) ==
    ReadFrameChecked(Checks(h,
        p_check_multi_or_stream(p_get_color_format(h))), w, filename, h,
        p_get_color_format(h), frame, P_NORMAL_COMP, bufs, "P_UNSIGNED_SHORT",
        read_mode, width, frm_height, stride, 0)

p_write_field_16(w, filename, h, frame, field, bufs, write_mode, width, fld_height, stride) ==
    WriteFieldChecked(Checks(h, p_check_multiplexed(p_get_color_format(h))),
        w, filename, h, p_get_color_format(h), frame, field, P_NORMAL_COMP,
        bufs, "P_UNSIGNED_SHORT", write_mode, width, fld_height, stride, 0)

p_write_frame_16(w, filename, h, frame, bufs, write_mode, width, frm_height, stride) ==
    WriteFrameChecked(Checks(h,
        p_check_multi_or_stream(p_get_color_format(h))), w, filename, h,
        p_get_color_format(h), frame, P_NORMAL_COMP, bufs, "P_UNSIGNED_SHORT",
        write_mode, width, frm_height, stride, 0)

p_read_field_planar(w, filename, h, frame, field, bufs, read_mode, width, fld_height, stride, uv_stride) ==
    ReadFieldChecked(Checks(h, p_check_planar(p_get_color_format(h))), w,
        filename, h, p_get_color_format(h), frame, field, P_NORMAL_COMP, bufs,
        "P_UNSIGNED_CHAR", read_mode, width, fld_height, stride, uv_stride)

p_read_frame_planar(w, filename, h, frame, bufs, read_mode, width, frm_height, stride, uv_stride) ==
    ReadFrameChecked(Checks(h, p_check_planar(p_get_color_format(h))), w,
        filename, h, p_get_color_format(h), frame, P_NORMAL_COMP, bufs,
        "P_UNSIGNED_CHAR", read_mode, width, frm_height, stride, uv_stride)

p_write_field_planar(w, filename, h, frame, field, bufs, width, fld_height, stride, uv_stride) ==
    WriteFieldChecked(Checks(h, p_check_planar(p_get_color_format(h))), w,
        filename, h, p_get_color_format(h), frame, field, P_NORMAL_COMP, bufs,
        "P_UNSIGNED_CHAR", "P_8_BIT_MEM", width, fld_height, stride,
        uv_stride)

p_write_frame_planar(w, filename, h, frame, bufs, width, frm_height, stride, uv_stride) ==
    WriteFrameChecked(Checks(h, p_check_planar(p_get_color_format(h))), w,
        filename, h, p_get_color_format(h), frame, P_NORMAL_COMP, bufs,
        "P_UNSIGNED_CHAR", "P_8_BIT_MEM", width, frm_height, stride,
        uv_stride)

p_read_field_planar_16(w, filename, h, frame, field, bufs, read_mode, width, fld_height, stride, uv_stride) ==
    ReadFieldChecked(Checks(h, p_check_planar(p_get_color_format(h))), w,
        filename, h, p_get_color_format(h), frame, field, P_NORMAL_COMP, bufs,
        "P_UNSIGNED_SHORT", read_mode, width, fld_height, stride, uv_stride)

p_read_frame_planar_16(w, filename, h, frame, bufs, read_mode, width, frm_height, stride, uv_stride) ==
    ReadFrameChecked(Checks(h, p_check_planar(p_get_color_format(h))), w,
        filename, h, p_get_color_format(h), frame, P_NORMAL_COMP, bufs,
        "P_UNSIGNED_SHORT", read_mode, width, frm_height, stride, uv_stride)

p_write_field_planar_16(w, filename, h, frame, field, bufs, write_mode, width, fld_height, stride, uv_stride) ==
    WriteFieldChecked(Checks(h, p_check_planar(p_get_color_format(h))), w,
        filename, h, p_get_color_format(h), frame, field, P_NORMAL_COMP, bufs,
        "P_UNSIGNED_SHORT", write_mode, width, fld_height, stride, uv_stride)

p_write_frame_planar_16(w, filename, h, frame, bufs, write_mode, width, frm_height, stride, uv_stride) ==
    WriteFrameChecked(Checks(h, p_check_planar(p_get_color_format(h))), w,
        filename, h, p_get_color_format(h), frame, P_NORMAL_COMP, bufs,
        "P_UNSIGNED_SHORT", write_mode, width, frm_height, stride, uv_stride)

p_read_field_comp(w, filename, h, frame, field, comp, bufs, read_mode, width, fld_height, stride) ==
    ReadFieldChecked(CompChecks(h, comp, TRUE), w, filename, h,
        "P_UNKNOWN_COLOR", frame, field, comp, bufs, "P_UNSIGNED_CHAR",
        read_mode, width, fld_height, stride, 0)

p_read_frame_comp(w, filename, h, frame, comp, bufs, read_mode, width, frm_height, stride) ==
    ReadFrameChecked(CompChecks(h, comp, TRUE), w, filename, h,
        "P_UNKNOWN_COLOR", frame, comp, bufs, "P_UNSIGNED_CHAR", read_mode,
        width, frm_height, stride, 0)

p_write_field_comp(w, filename, h, frame, field, comp, bufs, width, fld_height, stride) ==
    WriteFieldChecked(CompChecks(h, comp, FALSE), w, filename, h,
        "P_UNKNOWN_COLOR", frame, field, comp, bufs, "P_UNSIGNED_CHAR",
        "P_8_BIT_MEM", width, fld_height, stride, 0)

p_write_frame_comp(w, filename, h, frame, comp, bufs, width, frm_height, stride) ==
    WriteFrameChecked(CompChecks(h, comp, FALSE), w, filename, h,
        "P_UNKNOWN_COLOR", frame, comp, bufs, "P_UNSIGNED_CHAR",
        "P_8_BIT_MEM", width, frm_height, stride, 0)

p_read_field_comp_16(w, filename, h, frame, field, comp, bufs, read_mode, width, fld_height, stride) ==
    ReadFieldChecked(CompChecks(h, comp, TRUE), w, filename, h,
        "P_UNKNOWN_COLOR", frame, field, comp, bufs, "P_UNSIGNED_SHORT",
        read_mode, width, fld_height, stride, 0)

p_read_frame_comp_16(w, filename, h, frame, comp, bufs, read_mode, width, frm_height, stride) ==
    ReadFrameChecked(CompChecks(h, comp, TRUE), w, filename, h,
        "P_UNKNOWN_COLOR", frame, comp, bufs, "P_UNSIGNED_SHORT", read_mode,
        width, frm_height, stride, 0)

p_write_field_comp_16(w, filename, h, frame, field, comp, bufs, write_mode, width, fld_height, stride) ==
    WriteFieldChecked(CompChecks(h, comp, FALSE), w, filename, h,
        "P_UNKNOWN_COLOR", frame, field, comp, bufs, "P_UNSIGNED_SHORT",
        write_mode, width, fld_height, stride, 0)

p_write_frame_comp_16(w, filename, h, frame, comp, bufs, write_mode, width, frm_height, stride) ==
    WriteFrameChecked(CompChecks(h, comp, FALSE), w, filename, h,
        "P_UNKNOWN_COLOR", frame, comp, bufs, "P_UNSIGNED_SHORT", write_mode,
        width, frm_height, stride, 0)

----------------------------------------------------------------------------
(* The application: it holds one header, which p_create_ext_header has     *)
(* filled in, and calls the library with it.  Every action is one call of  *)
(* one library function; its arguments come from the sets below.           *)

\* the calls of a run
MaxCalls == 3

\* the arguments of p_create_ext_header: colour format, image frequency,
\* image size, pixels per line, progressive, aspect ratio
CreateArgs ==
    { << "P_NO_COLOR", "P_50HZ", "P_QCIF", 0, 1, "P_4_3" >>,
      << "P_NO_COLOR", "P_50HZ", "P_QCIF", 0, 0, "P_4_3" >>,
      << "P_COLOR_420", "P_60HZ", "P_QCIF", 0, 0, "P_UNKNOWN_ASPECT_RATIO" >>,
      << "P_COLOR_444_PL", "P_50HZ", "P_QCIF", 180, 1, "P_AS_WH" >>,
      << "P_COLOR_422", "P_50HZ", "P_HDi", 0, 1, "P_16_9" >> }

Created(h, a) == p_create_ext_header(h, a[1], a[2], a[3], a[4], a[5], a[6])

\* the library state the next call works on
W == [disk |-> disk, p_files |-> p_files, acc |-> << >>]

InitHeader ==
    /\ \E a \in CreateArgs :
          /\ Created(ZeroHeader, a).status = "P_OK"
          /\ header = Created(ZeroHeader, a).header
    /\ disk = [n \in FileNames |-> NoFile]
    /\ p_files = [n \in FileNames |-> ClosedFile]
    /\ op = [name |-> "p_create_ext_header", args |-> << >>]
    /\ status = "P_OK"
    /\ result = 0
    /\ accesses = << >>
    /\ membuf = << >>
    /\ budget = MaxCalls

\* a call that works on the header only
HeaderCall(name, args, r) ==
    /\ header' = r.header
    /\ status' = r.status
    /\ result' = 0
    /\ op' = [name |-> name, args |-> args]
    /\ accesses' = << >>
    /\ membuf' = << >>
    /\ budget' = budget - 1
    /\ UNCHANGED << disk, p_files >>

\* a call that returns a number instead of a status
NumberCall(name, args, h, n) ==
    /\ header' = h
    /\ status' = "none"
    /\ result' = n
    /\ op' = [name |-> name, args |-> args]
    /\ accesses' = << >>
    /\ membuf' = << >>
    /\ budget' = budget - 1
    /\ UNCHANGED << disk, p_files >>

\* a call that works on the header and on a file
FileCall(name, args, r) ==
    /\ r.status # Undefined
    /\ header' = r.header
    /\ status' = r.status
    /\ result' = 0
    /\ op' = [name |-> name, args |-> args]
    /\ disk' = r.w.disk
    /\ p_files' = r.w.p_files
    /\ accesses' = r.w.acc
    /\ membuf' = << >>
    /\ budget' = budget - 1

CreateExtHeader ==
    /\ budget > 0
    /\ \E a \in CreateArgs :
          HeaderCall("p_create_ext_header", a, Created(header, a))

ModNumFrames ==
    /\ budget > 0
    /\ \E num_frames \in {2} :
          HeaderCall("p_mod_num_frames", << num_frames >>,
                     p_mod_num_frames(header, num_frames))

\* when the format changes the components are made anew, by p_mod_add_comp,
\* which divides by header->interlace
ModColorFormat ==
    /\ budget > 0
    /\ \E color_format \in {"P_COLOR_RGB", "P_UNKNOWN_COLOR"} :
          /\ header.interlace # 0 \/ p_get_color_format(header) = color_format
          /\ HeaderCall("p_mod_color_format", << color_format >>,
                     p_mod_color_format(header, color_format))

ModAspectRatio ==
    /\ budget > 0
    /\ \E ratio \in {"P_16_9", "P_UNKNOWN_ASPECT_RATIO"} :
          HeaderCall("p_mod_aspect_ratio", << ratio >>,
                     p_mod_aspect_ratio(header, ratio))

ModToProgressive ==
    /\ budget > 0
    /\ HeaderCall("p_mod_to_progressive", << >>, p_mod_to_progressive(header))

ModToInterlaced ==
    /\ budget > 0
    /\ HeaderCall("p_mod_to_interlaced", << >>, p_mod_to_interlaced(header))

ModToDblImageRate ==
    /\ budget > 0
    /\ HeaderCall("p_mod_to_dbl_image_rate", << >>,
                  p_mod_to_dbl_image_rate(header))

ModToOnehalfImageRate ==
    /\ budget > 0
    /\ HeaderCall("p_mod_to_onehalf_image_rate", << >>,
                  p_mod_to_onehalf_image_rate(header))

\* widths and heights for p_mod_image_size
ImageSizeArgs == { << 4, 4 >>, << 144, 176 >>, << 0, 4 >> }

ModImageSize ==
    /\ budget > 0
    /\ ImageSizeDefined(header)
    /\ \E a \in ImageSizeArgs :
          HeaderCall("p_mod_image_size", a, p_mod_image_size(header, a[1], a[2]))

ModDefinedImageSize ==
    /\ budget > 0
    /\ \E a \in { << "P_CIF", 0 >>, << "P_CIF", 1 >> } :
          HeaderCall("p_mod_defined_image_size", a,
                     p_mod_defined_image_size(header, a[1], a[2]))

ModDefinedImageFreq ==
    /\ budget > 0
    /\ \E image_freq \in {"P_REAL_60HZ"} :
          HeaderCall("p_mod_defined_image_freq", << image_freq >>,
                     p_mod_defined_image_freq(header, image_freq))

\* image, line and pixel frequencies for p_mod_all_freqs
AllFreqsArgs ==
    { << Frq(25, 0), Frq(15, 6250000), Frq(13, 5000000) >>,
      << Frq(100000, 0), Frq(15, 6250000), Frq(13, 5000000) >>,
      << Frq(25, 0), FrqNeg(1, 0), Frq(13, 5000000) >> }

ModAllFreqs ==
    /\ budget > 0
    /\ \E a \in AllFreqsArgs :
          HeaderCall("p_mod_all_freqs", a,
                     p_mod_all_freqs(header, a[1], a[2], a[3]))

ModFileDataFormat ==
    /\ budget > 0
    /\ \E file_data_fmt \in {"P_16_BIT_FILE", "P_UNKNOWN_DATA_FORMAT"} :
          HeaderCall("p_mod_file_data_format", << file_data_fmt >>,
                     p_mod_file_data_format(header, file_data_fmt))

ModFileDescription ==
    /\ budget > 0
    /\ \E description \in { Descr("A    ", 5), Descr("?", P_SDESCRIPTION) } :
          HeaderCall("p_mod_file_description", << description >>,
                     p_mod_file_description(header, description))

\* p_mod_add_comp divides by header->interlace
ModAddComp ==
    /\ budget > 0
    /\ header.interlace # 0
    /\ NumberCall("p_mod_add_comp", << >>, p_mod_add_comp(header),
                  p_mod_add_comp_result(header))

\* component, name, file data format, pixel and line subsample factors and
\* multiplex factor for p_mod_set_comp_2
SetCompArgs ==
    { << 0, "A    ", "P_8_BIT_FILE", 1, 1, 1 >>,
      << 1, "P    ", "P_16_BIT_FILE", 2, 2, 0 >>,
      << 0, "A    ", "P_8_BIT_FILE", 7, 1, 1 >> }

\* p_mod_set_comp_2 divides by the subsample factors and by
\* header->interlace
ModSetComp2 ==
    /\ budget > 0
    /\ header.interlace # 0
    /\ \E a \in SetCompArgs :
          HeaderCall("p_mod_set_comp_2", a,
              Ret(p_mod_set_comp_2_status(header, a[1], a[3], a[4], a[5]),
                  p_mod_set_comp_2(header, a[1], a[2], a[3], a[4], a[5], a[6])))

ModRmComp ==
    /\ budget > 0
    /\ \E comp \in {-1, 0, 3} :
          HeaderCall("p_mod_rm_comp", << comp >>, p_mod_rm_comp(header, comp))

ModRmExtraComps ==
    /\ budget > 0
    /\ HeaderCall("p_mod_rm_extra_comps", << >>, p_mod_rm_extra_comps(header))

\* maximum size, name and length of the description for p_mod_add_aux
AddAuxArgs == { << 4, "A    ", 0, "d" >>, << 0, "P    ", 8, "d" >> }

ModAddAux ==
    /\ budget > 0
    /\ header.bytes_rec # 0
    /\ \E a \in AddAuxArgs :
          NumberCall("p_mod_add_aux", a,
                     p_mod_add_aux(header, a[1], a[2], a[3], a[4]),
                     p_mod_add_aux_result(header, a[1], a[2], a[3]))

ModRmAux ==
    /\ budget > 0
    /\ header.bytes_rec # 0
    /\ \E aux_id \in {0} :
          HeaderCall("p_mod_rm_aux", << aux_id >>, p_mod_rm_aux(header, aux_id))

\* the file names an application passes: the two of the model and NULL; a
\* call is recorded with the name and the modified flag of the header passed
FileArgs == FileNames \cup {NoName}

WriteHeader ==
    /\ budget > 0
    /\ \E filename \in FileArgs :
          FileCall("p_write_header", << filename, header.modified >>,
                   p_write_header(W, filename, header))

ReadHeader ==
    /\ budget > 0
    /\ \E filename \in FileArgs :
          FileCall("p_read_header", << filename, header.modified >>,
                   p_read_header(W, filename, header))

RewriteHeader ==
    /\ budget > 0
    /\ \E filename \in FileArgs :
          FileCall("p_rewrite_header", << filename, header.modified >>,
                   p_rewrite_header(W, filename, header))

NextHeader ==
    \/ CreateExtHeader
    \/ ModNumFrames
    \/ ModColorFormat
    \/ ModAspectRatio
    \/ ModToProgressive
    \/ ModToInterlaced
    \/ ModToDblImageRate
    \/ ModToOnehalfImageRate
    \/ ModImageSize
    \/ ModDefinedImageSize
    \/ ModDefinedImageFreq
    \/ ModAllFreqs
    \/ ModFileDataFormat
    \/ ModFileDescription
    \/ ModAddComp
    \/ ModSetComp2
    \/ ModRmComp
    \/ ModRmExtraComps
    \/ ModAddAux
    \/ ModRmAux
    \/ WriteHeader
    \/ ReadHeader
    \/ RewriteHeader

SpecHeader == InitHeader /\ [][NextHeader]_vars

----------------------------------------------------------------------------
(* An application that builds the auxiliary headers of a header: it adds   *)
(* and removes auxiliary headers, up to MaxAuxCalls times.                 *)

\* the calls of a run that adds and removes auxiliary headers
MaxAuxCalls == 5

\* maximum size, name, length of the description and byte of the
\* description for p_mod_add_aux: headers without and with a description,
\* two that fill half of the array each, and one that fills it up to its
\* last byte
CatalogArgs ==
    { << 4, "A    ", 0, "d" >>,
      << 0, "P    ", 8, "d" >>,
      << 100, "B*10", 8000, "d" >>,
      << 0, "Y    ", 8283, "8" >>,
      << 12345678, "U/V  ", 16327, " " >> }

\* the auxiliary headers an application names: one too low, those a
\* header of the model holds, and one more
CatalogIds == -1 .. 3

InitAux ==
    /\ \E a \in {a \in CreateArgs : a[1] = "P_NO_COLOR"} :
          header = Created(ZeroHeader, a).header
    /\ disk = [n \in FileNames |-> NoFile]
    /\ p_files = [n \in FileNames |-> ClosedFile]
    /\ op = [name |-> "p_create_ext_header", args |-> << >>,
             aux_hdrs |-> << >>]
    /\ status = "P_OK"
    /\ result = 0
    /\ accesses = << >>
    /\ membuf = << >>
    /\ budget = MaxAuxCalls

\* a call that works on the auxiliary headers: it is recorded with the
\* array aux_hdrs of the header passed; n is the number it returns
AuxHeaderCall(name, args, r, n) ==
    /\ header' = r.header
    /\ status' = r.status
    /\ result' = n
    /\ op' = [name |-> name, args |-> args, aux_hdrs |-> header.aux_hdrs]
    /\ budget' = budget - 1
    /\ UNCHANGED << disk, p_files, accesses, membuf >>

CatalogAdd ==
    /\ budget > 0
    /\ \E a \in CatalogArgs :
          AuxHeaderCall("p_mod_add_aux", a,
              Ret("none", p_mod_add_aux(header, a[1], a[2], a[3], a[4])),
              p_mod_add_aux_result(header, a[1], a[2], a[3]))

CatalogRm ==
    /\ budget > 0
    /\ \E aux_id \in CatalogIds :
          AuxHeaderCall("p_mod_rm_aux", << aux_id >>,
                        p_mod_rm_aux(header, aux_id), 0)

NextAux ==
    \/ CatalogAdd
    \/ CatalogRm

SpecAux == InitAux /\ [][NextAux]_vars

----------------------------------------------------------------------------
(* The application that reads and writes images.  It has made a header of  *)
(* a small image and may have written it to a file; then it calls the      *)
(* functions that access the images, and those for the header of the file. *)

\* the calls of a run that accesses images
MaxAccessCalls == 2

TheFile == "a.pfspd"

\* the arguments of p_create_ext_header the application starts from
SmallCreateArgs ==
    { << "P_NO_COLOR", "P_50HZ", "P_QCIF", 0, 1, "P_4_3" >>,
      << "P_NO_COLOR", "P_50HZ", "P_QCIF", 0, 0, "P_4_3" >>,
      << "P_COLOR_422", "P_50HZ", "P_QCIF", 0, 0, "P_4_3" >>,
      << "P_COLOR_444_PL", "P_50HZ", "P_QCIF", 0, 1, "P_4_3" >> }

\* the header of two frames of 4 x 4 samples with one auxiliary header of at
\* most four bytes of data
Prepared(a) ==
    p_mod_add_aux(
        p_mod_num_frames(
            p_mod_image_size(Created(ZeroHeader, a).header, 4, 4).header,
            2).header,
        4, "A    ", 0, "d")

\* the library before its first call
W0 == [disk |-> [n \in FileNames |-> NoFile],
       p_files |-> [n \in FileNames |-> ClosedFile], acc |-> << >>]

\* the states after the header r.header was made and r.w.disk written
Started(name, args, r) ==
    /\ r.status = "P_OK"
    /\ header = r.header
    /\ disk = r.w.disk
    /\ p_files = r.w.p_files
    /\ op = [name |-> name, args |-> args]
    /\ status = "P_OK"
    /\ result = 0
    /\ accesses = r.w.acc
    /\ membuf = << >>
    /\ budget = MaxAccessCalls

Init ==
    \E a \in SmallCreateArgs :
        \/ Started("p_mod_add_aux", << >>,
                   [status |-> "P_OK", header |-> Prepared(a), w |-> W0])
        \/ Started("p_write_header", << TheFile, 1 >>,
                   p_write_header(W0, TheFile, Prepared(a)))

Frames == {1, 2}
Fields == {1, 2}
Comps == {0, 1}
Seeds == {0, 1}
\* the byte the memory beside the buffers of a call holds
Junks == {0, 255}

\* width, height and stride of the buffers of a call
Shape(width, height, stride) ==
    [width |-> width, height |-> height, stride |-> stride]

\* the buffers of a frame: the lines one after the other, or two elements
\* apart
Tight == Shape(4, 4, 4)
Shapes == {Tight, Shape(4, 4, 6)}
\* the buffers of a field: half the lines
FieldShape(s) == [s EXCEPT !.height = @ \div 2]
TightField == FieldShape(Tight)
FieldShapes == {FieldShape(s) : s \in Shapes}

\* the three buffers of a call, each of height lines of stride elements
Bufs(seed, junk, s) ==
    [i \in 1..3 |-> Buffer(i - 1, seed, s.height * s.stride, junk)]

ReadMode(component_mode, mem_data_fmt) ==
    [component_mode |-> component_mode, mem_data_fmt |-> mem_data_fmt]
ReadAll8 == ReadMode("P_READ_ALL", "P_8_BIT_MEM")
ReadAll16 == ReadMode("P_READ_ALL", "P_16_BIT_MEM")
\* all components, or the luminance only, as bytes
ReadModes8 == {ReadAll8, ReadMode("P_READ_Y", "P_8_BIT_MEM")}

\* the arguments of a call as op records them; field is 0 for a call that
\* names no field, comp P_NORMAL_COMP for one that names no component
Args(frame, field, comp, bufs, s, uv_stride, mode) ==
    [frame |-> frame, field |-> field, comp |-> comp, bufs |-> bufs,
     width |-> s.width, height |-> s.height, stride |-> s.stride,
     uv_stride |-> uv_stride, mode |-> mode]

\* a call that reads from the file into the buffers of the caller
ReadCall(name, args, r) ==
    /\ r.status # Undefined
    /\ status' = r.status
    /\ result' = 0
    /\ op' = [name |-> name, args |-> args]
    /\ disk' = r.w.disk
    /\ p_files' = r.w.p_files
    /\ accesses' = r.w.acc
    /\ membuf' = r.mem
    /\ budget' = budget - 1
    /\ UNCHANGED header

\* a call that writes the buffers of the caller to the file
WriteCall(name, args, r) ==
    /\ r.status # Undefined
    /\ status' = r.status
    /\ result' = 0
    /\ op' = [name |-> name, args |-> args]
    /\ disk' = r.w.disk
    /\ p_files' = r.w.p_files
    /\ accesses' = r.w.acc
    /\ membuf' = << >>
    /\ budget' = budget - 1
    /\ UNCHANGED header

ReadField ==
    /\ budget > 0
    /\ \E frame \in Frames, field \in Fields, s \in FieldShapes, junk \in Junks,
          mode \in ReadModes8 :
          ReadCall("p_read_field",
              Args(frame, field, P_NORMAL_COMP, Bufs(0, junk, s), s, 0, mode),
              p_read_field(W, TheFile, header, frame, field, Bufs(0, junk, s),
                  mode, s.width, s.height, s.stride))

ReadFrame ==
    /\ budget > 0
    /\ \E frame \in Frames, s \in Shapes, junk \in Junks, mode \in ReadModes8 :
          ReadCall("p_read_frame",
              Args(frame, 0, P_NORMAL_COMP, Bufs(0, junk, s), s, 0, mode),
              p_read_frame(W, TheFile, header, frame, Bufs(0, junk, s),
                  mode, s.width, s.height, s.stride))

WriteField ==
    /\ budget > 0
    /\ \E frame \in Frames, field \in Fields, s \in FieldShapes, seed \in Seeds :
          WriteCall("p_write_field",
              Args(frame, field, P_NORMAL_COMP, Bufs(seed, 0, s), s, 0,
                  "P_8_BIT_MEM"),
              p_write_field(W, TheFile, header, frame, field, Bufs(seed, 0,
                  s), s.width, s.height, s.stride))

WriteFrame ==
    /\ budget > 0
    /\ \E frame \in Frames, s \in Shapes, seed \in Seeds :
          WriteCall("p_write_frame",
              Args(frame, 0, P_NORMAL_COMP, Bufs(seed, 0, s), s, 0,
                  "P_8_BIT_MEM"),
              p_write_frame(W, TheFile, header, frame, Bufs(seed, 0, s),
                  s.width, s.height, s.stride))

ReadField16 ==
    /\ budget > 0
    /\ \E frame \in Frames, field \in Fields :
          ReadCall("p_read_field_16",
              Args(frame, field, P_NORMAL_COMP, Bufs(0, 0, TightField),
                  TightField, 0, ReadAll16),
              p_read_field_16(W, TheFile, header, frame, field, Bufs(0, 0,
                  TightField), ReadAll16, TightField.width, TightField.height,
                  TightField.stride))

ReadFrame16 ==
    /\ budget > 0
    /\ \E frame \in Frames :
          ReadCall("p_read_frame_16",
              Args(frame, 0, P_NORMAL_COMP, Bufs(0, 0, Tight), Tight, 0,
                  ReadAll16),
              p_read_frame_16(W, TheFile, header, frame, Bufs(0, 0, Tight),
                  ReadAll16, Tight.width, Tight.height, Tight.stride))

WriteField16 ==
    /\ budget > 0
    /\ \E frame \in Frames, field \in Fields :
          WriteCall("p_write_field_16",
              Args(frame, field, P_NORMAL_COMP, Bufs(0, 0, TightField),
                  TightField, 0, "P_16_BIT_MEM"),
              p_write_field_16(W, TheFile, header, frame, field, Bufs(0, 0,
                  TightField), "P_16_BIT_MEM", TightField.width,
                  TightField.height, TightField.stride))

WriteFrame16 ==
    /\ budget > 0
    /\ \E frame \in Frames :
          WriteCall("p_write_frame_16",
              Args(frame, 0, P_NORMAL_COMP, Bufs(0, 0, Tight), Tight, 0,
                  "P_16_BIT_MEM"),
              p_write_frame_16(W, TheFile, header, frame, Bufs(0, 0, Tight),
                  "P_16_BIT_MEM", Tight.width, Tight.height, Tight.stride))

ReadFieldPlanar ==
    /\ budget > 0
    /\ \E frame \in Frames, field \in Fields :
          ReadCall("p_read_field_planar",
              Args(frame, field, P_NORMAL_COMP, Bufs(0, 0, TightField),
                  TightField, TightField.stride, ReadAll8),
              p_read_field_planar(W, TheFile, header, frame, field, Bufs(0, 0,
                  TightField), ReadAll8, TightField.width, TightField.height,
                  TightField.stride, TightField.stride))

ReadFramePlanar ==
    /\ budget > 0
    /\ \E frame \in Frames :
          ReadCall("p_read_frame_planar",
              Args(frame, 0, P_NORMAL_COMP, Bufs(0, 0, Tight), Tight,
                  Tight.stride, ReadAll8),
              p_read_frame_planar(W, TheFile, header, frame, Bufs(0, 0,
                  Tight), ReadAll8, Tight.width, Tight.height, Tight.stride,
                  Tight.stride))

WriteFieldPlanar ==
    /\ budget > 0
    /\ \E frame \in Frames, field \in Fields :
          WriteCall("p_write_field_planar",
              Args(frame, field, P_NORMAL_COMP, Bufs(0, 0, TightField),
                  TightField, TightField.stride, "P_8_BIT_MEM"),
              p_write_field_planar(W, TheFile, header, frame, field, Bufs(0,
                  0, TightField), TightField.width, TightField.height,
                  TightField.stride, TightField.stride))

WriteFramePlanar ==
    /\ budget > 0
    /\ \E frame \in Frames :
          WriteCall("p_write_frame_planar",
              Args(frame, 0, P_NORMAL_COMP, Bufs(0, 0, Tight), Tight,
                  Tight.stride, "P_8_BIT_MEM"),
              p_write_frame_planar(W, TheFile, header, frame, Bufs(0, 0,
                  Tight), Tight.width, Tight.height, Tight.stride,
                  Tight.stride))

ReadFieldPlanar16 ==
    /\ budget > 0
    /\ \E frame \in Frames, field \in Fields :
          ReadCall("p_read_field_planar_16",
              Args(frame, field, P_NORMAL_COMP, Bufs(0, 0, TightField),
                  TightField, TightField.stride, ReadAll16),
              p_read_field_planar_16(W, TheFile, header, frame, field, Bufs(0,
                  0, TightField), ReadAll16, TightField.width,
                  TightField.height, TightField.stride, TightField.stride))

ReadFramePlanar16 ==
    /\ budget > 0
    /\ \E frame \in Frames :
          ReadCall("p_read_frame_planar_16",
              Args(frame, 0, P_NORMAL_COMP, Bufs(0, 0, Tight), Tight,
                  Tight.stride, ReadAll16),
              p_read_frame_planar_16(W, TheFile, header, frame, Bufs(0, 0,
                  Tight), ReadAll16, Tight.width, Tight.height, Tight.stride,
                  Tight.stride))

WriteFieldPlanar16 ==
    /\ budget > 0
    /\ \E frame \in Frames, field \in Fields :
          WriteCall("p_write_field_planar_16",
              Args(frame, field, P_NORMAL_COMP, Bufs(0, 0, TightField),
                  TightField, TightField.stride, "P_16_BIT_MEM"),
              p_write_field_planar_16(W, TheFile, header, frame, field,
                  Bufs(0, 0, TightField), "P_16_BIT_MEM", TightField.width,
                  TightField.height, TightField.stride, TightField.stride))

WriteFramePlanar16 ==
    /\ budget > 0
    /\ \E frame \in Frames :
          WriteCall("p_write_frame_planar_16",
              Args(frame, 0, P_NORMAL_COMP, Bufs(0, 0, Tight), Tight,
                  Tight.stride, "P_16_BIT_MEM"),
              p_write_frame_planar_16(W, TheFile, header, frame, Bufs(0, 0,
                  Tight), "P_16_BIT_MEM", Tight.width, Tight.height,
                  Tight.stride, Tight.stride))

ReadFieldComp ==
    /\ budget > 0
    /\ \E frame \in Frames, field \in Fields, comp \in Comps :
          ReadCall("p_read_field_comp",
              Args(frame, field, comp, Bufs(0, 0, TightField), TightField, 0,
                  ReadAll8),
              p_read_field_comp(W, TheFile, header, frame, field, comp,
                  Bufs(0, 0, TightField), ReadAll8, TightField.width,
                  TightField.height, TightField.stride))

ReadFrameComp ==
    /\ budget > 0
    /\ \E frame \in Frames, comp \in Comps :
          ReadCall("p_read_frame_comp",
              Args(frame, 0, comp, Bufs(0, 0, Tight), Tight, 0, ReadAll8),
              p_read_frame_comp(W, TheFile, header, frame, comp, Bufs(0, 0,
                  Tight), ReadAll8, Tight.width, Tight.height, Tight.stride))

WriteFieldComp ==
    /\ budget > 0
    /\ \E frame \in Frames, field \in Fields, comp \in Comps :
          WriteCall("p_write_field_comp",
              Args(frame, field, comp, Bufs(0, 0, TightField), TightField, 0,
                  "P_8_BIT_MEM"),
              p_write_field_comp(W, TheFile, header, frame, field, comp,
                  Bufs(0, 0, TightField), TightField.width, TightField.height,
                  TightField.stride))

WriteFrameComp ==
    /\ budget > 0
    /\ \E frame \in Frames, comp \in Comps :
          WriteCall("p_write_frame_comp",
              Args(frame, 0, comp, Bufs(0, 0, Tight), Tight, 0,
                  "P_8_BIT_MEM"),
              p_write_frame_comp(W, TheFile, header, frame, comp, Bufs(0, 0,
                  Tight), Tight.width, Tight.height, Tight.stride))

ReadFieldComp16 ==
    /\ budget > 0
    /\ \E frame \in Frames, field \in Fields :
          ReadCall("p_read_field_comp_16",
              Args(frame, field, 0, Bufs(0, 0, TightField), TightField, 0,
                  ReadAll16),
              p_read_field_comp_16(W, TheFile, header, frame, field, 0,
                  Bufs(0, 0, TightField), ReadAll16, TightField.width,
                  TightField.height, TightField.stride))

ReadFrameComp16 ==
    /\ budget > 0
    /\ \E frame \in Frames :
          ReadCall("p_read_frame_comp_16",
              Args(frame, 0, 0, Bufs(0, 0, Tight), Tight, 0, ReadAll16),
              p_read_frame_comp_16(W, TheFile, header, frame, 0, Bufs(0, 0,
                  Tight), ReadAll16, Tight.width, Tight.height, Tight.stride))

WriteFieldComp16 ==
    /\ budget > 0
    /\ \E frame \in Frames, field \in Fields :
          WriteCall("p_write_field_comp_16",
              Args(frame, field, 0, Bufs(0, 0, TightField), TightField, 0,
                  "P_16_BIT_MEM"),
              p_write_field_comp_16(W, TheFile, header, frame, field, 0,
                  Bufs(0, 0, TightField), "P_16_BIT_MEM", TightField.width,
                  TightField.height, TightField.stride))

WriteFrameComp16 ==
    /\ budget > 0
    /\ \E frame \in Frames :
          WriteCall("p_write_frame_comp_16",
              Args(frame, 0, 0, Bufs(0, 0, Tight), Tight, 0, "P_16_BIT_MEM"),
              p_write_frame_comp_16(W, TheFile, header, frame, 0, Bufs(0, 0,
                  Tight), "P_16_BIT_MEM", Tight.width, Tight.height,
                  Tight.stride))

\* the auxiliary data a call names: the header made at the start, and one
\* that does not exist
AuxIds == {0, 1}
AuxFields == {0, 1, 2}

\* a call that reads auxiliary data; result is the size it stores
AuxReadCall(name, args, r) ==
    /\ status' = r.status
    /\ result' = r.size
    /\ op' = [name |-> name, args |-> args]
    /\ disk' = r.w.disk
    /\ p_files' = r.w.p_files
    /\ accesses' = r.w.acc
    /\ membuf' = r.mem
    /\ budget' = budget - 1
    /\ UNCHANGED header

AuxArgs(frame, field, aux_id, size, buf) ==
    [frame |-> frame, field |-> field, aux_id |-> aux_id, size |-> size,
     buf |-> buf]

ReadAux ==
    /\ budget > 0
    /\ \E frame \in Frames, field \in AuxFields, aux_id \in AuxIds :
          AuxReadCall("p_read_aux",
              AuxArgs(frame, field, aux_id, 0, Buffer(0, 0, 4, 0)),
              p_read_aux(W, TheFile, header, frame, field, aux_id,
                         Buffer(0, 0, 4, 0)))

WriteAux ==
    /\ budget > 0
    /\ \E frame \in Frames, field \in AuxFields, aux_id \in AuxIds,
          size \in {4, 5} :
          WriteCall("p_write_aux",
              AuxArgs(frame, field, aux_id, size, Buffer(0, 0, 4, 0)),
              p_write_aux(W, TheFile, header, frame, field, aux_id, size,
                          Buffer(0, 0, 4, 0)))

Next ==
    \/ ReadField
    \/ ReadFrame
    \/ WriteField
    \/ WriteFrame
    \/ ReadField16
    \/ ReadFrame16
    \/ WriteField16
    \/ WriteFrame16
    \/ ReadFieldPlanar
    \/ ReadFramePlanar
    \/ WriteFieldPlanar
    \/ WriteFramePlanar
    \/ ReadFieldPlanar16
    \/ ReadFramePlanar16
    \/ WriteFieldPlanar16
    \/ WriteFramePlanar16
    \/ ReadFieldComp
    \/ ReadFrameComp
    \/ WriteFieldComp
    \/ WriteFrameComp
    \/ ReadFieldComp16
    \/ ReadFrameComp16
    \/ WriteFieldComp16
    \/ WriteFrameComp16
    \/ ReadAux
    \/ WriteAux
    \/ WriteHeader
    \/ ReadHeader
    \/ RewriteHeader
    \/ ModNumFrames
    \/ ModAddAux

Spec == Init /\ [][Next]_vars

----------------------------------------------------------------------------
(* Properties *)

\* the functions of cpfspd_rwi.c that read or write a field, a frame or a
\* single component
ReadNames ==
    {"p_read_field", "p_read_frame", "p_read_field_16", "p_read_frame_16",
     "p_read_field_planar", "p_read_frame_planar", "p_read_field_planar_16",
     "p_read_frame_planar_16", "p_read_field_comp", "p_read_frame_comp",
     "p_read_field_comp_16", "p_read_frame_comp_16"}
WriteNames ==
    {"p_write_field", "p_write_frame", "p_write_field_16", "p_write_frame_16",
     "p_write_field_planar", "p_write_frame_planar", "p_write_field_planar_16",
     "p_write_frame_planar_16", "p_write_field_comp", "p_write_frame_comp",
     "p_write_field_comp_16", "p_write_frame_comp_16"}
AccessNames == ReadNames \cup WriteNames

\* the call made last left the files and the library's administration of
\* them as they were
NoFileAccess ==
    /\ accesses' = << >>
    /\ disk' = disk
    /\ p_files' = p_files

\* C1: a call of a function that reads or writes a field, a frame or a
\* single component with a header whose modified flag is set returns
\* P_HEADER_IS_MODIFIED and accesses no file.
C1_ModifiedIsRejected ==
    [][(op'.name \in AccessNames /\ header.modified = 1)
        => (status' = "P_HEADER_IS_MODIFIED" /\ NoFileAccess)]_vars

\* a modified header was handed to one of the functions, and rejected
C1_Witness ==
    /\ disk[TheFile].exists
    /\ op.name \in AccessNames
    /\ header.modified = 1
    /\ status = "P_HEADER_IS_MODIFIED"

HeaderIONames == {"p_read_header", "p_write_header", "p_rewrite_header"}
AuxNames == {"p_read_aux", "p_write_aux"}

\* C2: a header is accepted by a function that reads or writes a field
\* or a frame only when the last call on the header itself was a
\* p_read_header, p_write_header or p_rewrite_header that returned P_OK;
\* when such a call was given a modified header and failed, the next read
\* or write of a field or frame returns P_HEADER_IS_MODIFIED.
C2_AcceptedOnlyAfterSuccess ==
    [][(op'.name \in AccessNames /\ op.name \notin AccessNames \cup AuxNames)
        => /\ status' # "P_HEADER_IS_MODIFIED"
                => (op.name \in HeaderIONames /\ status = "P_OK")
           /\ (op.name \in HeaderIONames /\ op.args[2] = 1 /\ status # "P_OK")
                => status' = "P_HEADER_IS_MODIFIED"]_vars

ModNames ==
    { "p_mod_num_frames", "p_mod_color_format", "p_mod_aspect_ratio",
      "p_mod_to_progressive", "p_mod_to_interlaced", "p_mod_to_dbl_image_rate",
      "p_mod_to_onehalf_image_rate", "p_mod_image_size",
      "p_mod_defined_image_size", "p_mod_defined_image_freq",
      "p_mod_all_freqs", "p_mod_file_data_format", "p_mod_file_description",
      "p_mod_add_comp", "p_mod_set_comp_2", "p_mod_rm_comp",
      "p_mod_rm_extra_comps" }

\* the calls that return before anything is done: p_mod_all_freqs with a
\* negative frequency, p_mod_add_comp on a full table of components and
\* p_mod_rm_comp of component -1
LeavesHeader ==
    \/ op'.name = "p_mod_all_freqs" /\ status' = "P_ILLEGAL_ILP_FREQ_MOD"
    \/ op'.name = "p_mod_add_comp" /\ result' = -1
    \/ op'.name = "p_mod_rm_comp" /\ op'.args[1] = -1

\* C3 as stated: every function that modifies the header returns with
\* header.modified = 1, also when it changes nothing or returns an error.
C3_AlwaysModified ==
    [][op'.name \in ModNames => header'.modified = 1]_vars

\* C3: every function that modifies the header returns with
\* header.modified = 1, also when it changes nothing or returns an error,
\* except p_mod_all_freqs returning P_ILLEGAL_ILP_FREQ_MOD, p_mod_add_comp
\* returning -1 and p_mod_rm_comp of component -1, which leave the whole
\* header, its modified flag included, as it was.
C3_ModifiedUnlessLeft ==
    [][op'.name \in ModNames
        => IF LeavesHeader THEN header' = header ELSE header'.modified = 1]_vars

C3_Witness ==
    /\ op.name = "p_mod_rm_comp"
    /\ status = "P_INVALID_COMPONENT"
    /\ header.modified = 1
    /\ disk[TheFile].exists

\* the header stored in the file of that name, as p_read_hdr reads it
StoredHeader(filename) == p_read_hdr(W, filename, ZeroHeader)

\* a difference in the lines per image or the pixels per line of a
\* component, in the interlace factor, in the endianness flag or in a
\* number of records
StructureDiffers(old, h) ==
    \/ \E i \in 1..MIN(old.nr_compon, h.nr_compon) :
          \/ old.comp[i].lin_image # h.comp[i].lin_image
          \/ old.comp[i].pix_line # h.comp[i].pix_line
    \/ old.interlace # h.interlace
    \/ old.little_endian # h.little_endian
    \/ old.nr_fd_recs # h.nr_fd_recs
    \/ old.nr_aux_hdr_recs # h.nr_aux_hdr_recs
    \/ old.nr_aux_data_recs # h.nr_aux_data_recs

\* a valid header that differs in structure from the one of the file is
\* passed to p_rewrite_header
RewriteOfChangedStructure ==
    /\ op'.name = "p_rewrite_header"
    /\ op'.args[1] # NoName
    /\ p_check_header(header) = "P_OK"
    /\ StoredHeader(op'.args[1]).status = "P_OK"
    /\ StructureDiffers(StoredHeader(op'.args[1]).header, header)

NothingWritten ==
    /\ disk' = disk
    /\ \A i \in 1..Len(accesses') : accesses'[i].call # "write"

\* C4: p_rewrite_header returns P_REWRITE_MODIFIED_HEADER and writes nothing
\* when the header passed differs from the header stored in the file in the
\* lines per image or the pixels per line of a component, in the interlace
\* factor, in the endianness flag or in a number of records.
C4_RewriteRejectsStructure ==
    [][RewriteOfChangedStructure
        => (status' = "P_REWRITE_MODIFIED_HEADER" /\ NothingWritten)]_vars

\* h is the header old but for the description and the image, line and
\* pixel frequencies
OnlyTextAndFreqsDiffer(old, h) ==
    h = [old EXCEPT !.description = h.description,
                    !.ima_freq = h.ima_freq,
                    !.lin_freq = h.lin_freq,
                    !.pix_freq = h.pix_freq,
                    !.modified = h.modified]

\* a valid header that differs from the one of the file in nothing but the
\* description and the frequencies is passed to p_rewrite_header
RewriteOfTextAndFreqs ==
    /\ op'.name = "p_rewrite_header"
    /\ op'.args[1] # NoName
    /\ p_check_header(header) = "P_OK"
    /\ StoredHeader(op'.args[1]).status = "P_OK"
    /\ OnlyTextAndFreqsDiffer(StoredHeader(op'.args[1]).header, header)

\* what a p_read_header of that file gives after the call
ReadBack(filename) ==
    p_read_header([disk |-> disk', p_files |-> p_files', acc |-> << >>],
                  filename, ZeroHeader)

\* C5: when the header passed to p_rewrite_header differs from the header
\* stored in the file only in the description and the image, line and pixel
\* frequencies, the call returns P_OK and a p_read_header of the file then
\* gives the new description and frequencies and all other fields as they
\* were.
C5_RewriteKeepsTextAndFreqs ==
    [][RewriteOfTextAndFreqs
        => /\ status' = "P_OK"
           /\ ReadBack(op'.args[1]).status = "P_OK"
           /\ ReadBack(op'.args[1]).header = [header EXCEPT !.modified = 0]]_vars

\* the function that reads what a function writes, for the functions with
\* buffers of bytes
ReadOf ==
    [n \in { "p_write_field", "p_write_frame", "p_write_field_planar",
             "p_write_frame_planar", "p_write_field_comp",
             "p_write_frame_comp" } |->
        CASE n = "p_write_field" -> "p_read_field"
          [] n = "p_write_frame" -> "p_read_frame"
          [] n = "p_write_field_planar" -> "p_read_field_planar"
          [] n = "p_write_frame_planar" -> "p_read_frame_planar"
          [] n = "p_write_field_comp" -> "p_read_field_comp"
          [] n = "p_write_frame_comp" -> "p_read_frame_comp"]

\* a call wrote buffers to the file and the next call reads the same frame,
\* field or component into buffers of the same width, height and stride
\* and the same memory format, and succeeds
ReadsBackTheWrite ==
    /\ op.name \in DOMAIN ReadOf
    /\ status = "P_OK"
    /\ op'.name = ReadOf[op.name]
    /\ status' = "P_OK"
    /\ op'.args.frame = op.args.frame
    /\ op'.args.field = op.args.field
    /\ op'.args.comp = op.args.comp
    /\ op'.args.width = op.args.width
    /\ op'.args.height = op.args.height
    /\ op'.args.stride = op.args.stride
    /\ op'.args.uv_stride = op.args.uv_stride
    /\ op'.args.mode.mem_data_fmt = op.args.mode

\* the buffers hold at every element the call stored the sample the writing
\* call had there
SamplesAsWritten ==
    \A k \in DOMAIN membuf' :
        membuf'[k] = BufSample(op.args.bufs[k[1] + 1], "P_UNSIGNED_CHAR", k[2])

\* C6: after a p_write_header that succeeded, a frame, field or component
\* written from buffers of a width, height and stride and read back into
\* buffers of the same width, height, stride and memory format gives the
\* samples that were written, for every frame, for progressive and
\* interlaced files and in any order of the frames.
C6_ReadGivesWritten ==
    [][ReadsBackTheWrite => (membuf' # << >> /\ SamplesAsWritten)]_vars

\* the sizes and offsets as the description of the file format gives them
HeaderBytes(h) == (2 + h.nr_fd_recs + 2 * h.nr_compon) * h.bytes_rec
AuxBytes(h) == h.nr_aux_data_recs * h.bytes_rec
CompBytes(h, c) ==
    p_get_size_comp(h.comp[c + 1].pix_line, h.comp[c + 1].lin_image,
                    h.comp[c + 1].data_fmt)
RECURSIVE CompsBefore(_, _)
CompsBefore(h, c) ==
    IF c = 0 THEN 0 ELSE CompsBefore(h, c - 1) + CompBytes(h, c - 1)
ImageBytes(h) == AuxBytes(h) + CompsBefore(h, h.nr_compon)
ImageStart(h, n) == HeaderBytes(h) + (n - 1) * ImageBytes(h)
CompStart(h, n, c) == ImageStart(h, n) + AuxBytes(h) + CompsBefore(h, c)

\* the images the last call names: that of the field, that of the frame,
\* or the two fields of the frame when the call reads or writes a frame of
\* an interlaced file
ImagesOfCall ==
    IF op.args.field > 0 THEN {2 * (op.args.frame - 1) + op.args.field}
    ELSE IF op.name \in AccessNames /\ header.interlace = 2
    THEN {2 * op.args.frame - 1, 2 * op.args.frame}
    ELSE {op.args.frame}

\* the first component the last call names
FirstCompOfCall == IF op.args.comp = P_NORMAL_COMP THEN 0 ELSE op.args.comp

FileAccesses ==
    {i \in 1..Len(accesses) : accesses[i].call \in {"seek", "read", "write"}}

\* access i lies in component c of image n
InComponent(i, n, c) ==
    /\ CompStart(header, n, c) <= accesses[i].offset
    /\ accesses[i].offset + accesses[i].size
            <= CompStart(header, n, c) + CompBytes(header, c)

\* the accesses of a call that read or wrote image data lie in the
\* components of the images it names, and each of these images is entered
\* at the start of the first component
ImageAccessAtOffset ==
    (op.name \in AccessNames /\ status = "P_OK")
    => /\ \A i \in FileAccesses :
            \E n \in ImagesOfCall, c \in 0..(header.nr_compon - 1) :
                InComponent(i, n, c)
       /\ \A n \in ImagesOfCall : \E i \in FileAccesses :
            accesses[i].offset = CompStart(header, n, FirstCompOfCall)

\* the accesses of a call that read or wrote auxiliary data start at the
\* offset of the data in the image it names and stay in its records
AuxAccessAtOffset ==
    (op.name \in AuxNames /\ status = "P_OK" /\ FileAccesses # {})
    => /\ \A n \in ImagesOfCall, i \in FileAccesses :
            /\ ImageStart(header, n)
                    + p_aux_get_data_offset(header.aux_hdrs, op.args.aux_id)
                 <= accesses[i].offset
            /\ accesses[i].offset + accesses[i].size
                 <= ImageStart(header, n) + AuxBytes(header)
       /\ \A n \in ImagesOfCall : \E i \in FileAccesses :
            accesses[i].offset = ImageStart(header, n)
                + p_aux_get_data_offset(header.aux_hdrs, op.args.aux_id)

\* a header that was written ends where image 1 starts, and the sizes kept
\* for the open file are those of the header and of an image
HeaderWriteAtOffset ==
    (op.name \in {"p_write_header", "p_rewrite_header"} /\ status = "P_OK")
    => /\ \A i \in FileAccesses :
            accesses[i].offset + accesses[i].size <= ImageStart(header, 1)
       /\ p_files[op.args[1]].size_header = HeaderBytes(header)
       /\ p_files[op.args[1]].size_image = ImageBytes(header)

\* C7: image n of a file starts at header_byte_size + (n - 1) *
\* image_byte_size, with header_byte_size = (2 + nr_fd_recs + 2 * nr_compon)
\* * bytes_rec and image_byte_size = nr_aux_data_recs * bytes_rec + the
\* sizes of the components; the write of the header, the reads and writes
\* of images and those of auxiliary data all work at this offset.
C7_ImageOffsets ==
    /\ ImageAccessAtOffset
    /\ AuxAccessAtOffset
    /\ HeaderWriteAtOffset

C7_Witness ==
    /\ op.name = "p_write_frame"
    /\ status = "P_OK"
    /\ op.args.frame = 2
    /\ header.interlace = 2
    /\ header.nr_compon = 2
    /\ \E i \in FileAccesses :
          accesses[i].offset = ImageStart(header, 4) + AuxBytes(header)

\* the images the layout is looked at for
SomeImages == 1..2
CompsOf(h) == 0..(h.nr_compon - 1)
\* where p_read_image and p_write_image find component c of image n, and
\* where it ends
CompEnd(h, n, c) == ComponentOffset(h, n, c) + CompBytes(h, c)

\* the ranges [ComponentOffset, CompEnd) of the components c and d of image n
\* have no byte in common: one is empty, or one ends where or before the
\* other starts
Disjoint(h, n, c, d) ==
    \/ CompBytes(h, c) = 0
    \/ CompBytes(h, d) = 0
    \/ CompEnd(h, n, c) <= ComponentOffset(h, n, d)
    \/ CompEnd(h, n, d) <= ComponentOffset(h, n, c)

\* the components lie after the auxiliary records of the image and before
\* the next image, none over another
ComponentsApart(h, n) ==
    \A c \in CompsOf(h) :
        /\ ImageStart(h, n) + AuxBytes(h) <= ComponentOffset(h, n, c)
        /\ CompEnd(h, n, c) <= ImageStart(h, n + 1)
        /\ \A d \in CompsOf(h) : c < d => Disjoint(h, n, c, d)

\* C8 as stated: in an image of a header that passes p_check_header the
\* components start at strictly increasing offsets, their bytes are
\* pairwise disjoint, begin after the auxiliary records of the image and
\* end at or before the start of the next image.
C8_StrictlyIncreasing ==
    p_check_header(header) = "P_OK"
    => \A n \in SomeImages :
          /\ ComponentsApart(header, n)
          /\ \A c, d \in CompsOf(header) :
                c < d => ComponentOffset(header, n, c) < ComponentOffset(header, n, d)

\* C8: in an image of a header that passes p_check_header the components
\* start at offsets that never decrease, and increase after every component
\* that has bytes; their bytes are pairwise disjoint, begin at or after the
\* end of the auxiliary records of the image and end at or before the start
\* of the next image.
C8_ComponentsInOrder ==
    p_check_header(header) = "P_OK"
    => \A n \in SomeImages :
          /\ ComponentsApart(header, n)
          /\ \A c, d \in CompsOf(header) :
                c < d => /\ ComponentOffset(header, n, c) <= ComponentOffset(header, n, d)
                         /\ CompBytes(header, c) > 0
                              => ComponentOffset(header, n, c) < ComponentOffset(header, n, d)

C8_Witness ==
    /\ p_check_header(header) = "P_OK"
    /\ header.nr_compon >= 3
    /\ \A c \in CompsOf(header) : CompBytes(header, c) > 0
    /\ header.nr_aux_data_recs > 0

\* access i lies in image n of the file
InImage(i, n) ==
    /\ ImageStart(header, n) <= accesses[i].offset
    /\ accesses[i].offset + accesses[i].size <= ImageStart(header, n + 1)

\* the last call read or wrote image or auxiliary data
DataCall == op.name \in AccessNames \cup AuxNames /\ status = "P_OK"

\* a call that names frame f and no field worked in image f of a
\* progressive file
FrameIsImage ==
    (DataCall /\ header.interlace = 1 /\ op.args.field = 0)
    => \A i \in FileAccesses : InImage(i, op.args.frame)

\* a call that names field k of frame f worked in image 2 * (f - 1) + k of
\* an interlaced file
FieldIsImage ==
    (DataCall /\ header.interlace = 2 /\ op.args.field \in {1, 2})
    => \A i \in FileAccesses :
          InImage(i, 2 * (op.args.frame - 1) + op.args.field)

\* the image the library computes for a frame of the header and, on an
\* interlaced header, one of its fields
ImageOf(h, frame, field) ==
    IF h.interlace = 2 THEN ImageNumber(frame, field, TRUE)
    ELSE ImageNumber(frame, 0, FALSE)
AuxImageOf(h, frame, field) ==
    IF h.interlace = 2 THEN AuxImage(frame, field) ELSE AuxImage(frame, 0)

\* the (frame, field) pairs of a header: field 0 on a progressive one
PairsOf(h) ==
    {p \in (1..p_get_num_frames(h)) \X (0..2) :
        p[2] = 0 <=> h.interlace = 1}

\* distinct pairs get distinct images of the file, for images and for
\* auxiliary data
PairsApart ==
    \A p, q \in PairsOf(header) :
        /\ ImageOf(header, p[1], p[2]) \in 1..header.nr_images
        /\ AuxImageOf(header, p[1], p[2]) = ImageOf(header, p[1], p[2])
        /\ p # q => ImageOf(header, p[1], p[2]) # ImageOf(header, q[1], q[2])

\* C9: frame f of a progressive file addresses image f and field k of frame
\* f of an interlaced file image 2 * (f - 1) + k, in the reads and writes of
\* images, of single components and of auxiliary data; distinct (frame,
\* field) pairs address distinct images within 1..nr_images.
C9_FrameAndFieldImages ==
    /\ FrameIsImage
    /\ FieldIsImage
    /\ header.interlace \in {1, 2} => PairsApart

C9_Witness ==
    /\ op.name = "p_read_aux"
    /\ status = "P_OK"
    /\ header.interlace = 2
    /\ op.args.frame = 2
    /\ op.args.field = 2
    /\ \E i \in FileAccesses : accesses[i].call = "read"

\* the statuses of the checks an access function makes before it looks at
\* the field: that of the modified flag, of the colour format, of the
\* component and of the auxiliary header
EarlierErrors ==
    {"P_HEADER_IS_MODIFIED", "P_INCOMP_MULT_COLOR_FORMAT",
     "P_INCOMP_PLANAR_COLOR_FORMAT", "P_READ_INVALID_COMPONENT",
     "P_WRITE_INVALID_COMPONENT", "P_INVALID_AUXILIARY"}

\* the call made names field 1 or 2 with a progressive header
FieldOfProgressive ==
    /\ op'.name \in AccessNames \cup AuxNames
    /\ op'.args.field \in {1, 2}
    /\ header.interlace = 1

\* C10: a call that names field 1 or 2 with a progressive header
\* (interlace = 1) touches no file and returns P_SHOULD_BE_INTERLACED,
\* unless a check made before that of the field has failed, and then the
\* status of that check.
C10_FieldOfProgressiveRejected ==
    [][FieldOfProgressive
        => /\ status' \in {"P_SHOULD_BE_INTERLACED"} \cup EarlierErrors
           /\ NoFileAccess]_vars

----------------------------------------------------------------------------
(* An application that sets the sizes and the components of a header by   *)
(* hand, switches the checks of the header off and on, and has the header *)
(* checked, up to MaxCheckCalls times.                                    *)

MaxCheckCalls == 3

InitCheck ==
    /\ \E a \in CreateArgs :
          /\ Created(ZeroHeader, a).status = "P_OK"
          /\ header = Created(ZeroHeader, a).header
    /\ disk = [n \in FileNames |-> NoFile]
    /\ p_files = [n \in FileNames |-> ClosedFile]
    /\ op = [name |-> "p_create_ext_header", args |-> << >>]
    /\ status = "P_OK"
    /\ result = 0
    /\ accesses = << >>
    /\ membuf = << >>
    /\ budget = MaxCheckCalls

\* width and height for p_mod_image_size: an odd height with them
CheckSizeArgs == { << 4, 4 >>, << 4, 5 >>, << 5000, 4 >> }

SizeImage ==
    /\ budget > 0
    /\ ImageSizeDefined(header)
    /\ \E a \in CheckSizeArgs :
          HeaderCall("p_mod_image_size", a, p_mod_image_size(header, a[1], a[2]))

\* component, name, file data format, pixel and line subsample factors and
\* multiplex factor for p_mod_set_comp_2: a name of no colour format, the
\* chrominance of P_COLOR_422_PL, and a luminance of a seventh of the width
CheckCompArgs ==
    { << 0, "A    ", "P_8_BIT_FILE", 1, 1, 1 >>,
      << 1, "U    ", "P_8_BIT_FILE", 2, 1, 1 >>,
      << 2, "V    ", "P_8_BIT_FILE", 2, 1, 1 >>,
      << 0, "Y    ", "P_8_BIT_FILE", 7, 1, 1 >> }

SetComp ==
    /\ budget > 0
    /\ header.interlace # 0
    /\ \E a \in CheckCompArgs :
          HeaderCall("p_mod_set_comp_2", a,
              Ret(p_mod_set_comp_2_status(header, a[1], a[3], a[4], a[5]),
                  p_mod_set_comp_2(header, a[1], a[2], a[3], a[4], a[5], a[6])))

\* the application assigns to disable_hdr_checks of its header
SetDisableHdrChecks ==
    /\ budget > 0
    /\ \E v \in {0, 1} :
          HeaderCall("disable_hdr_checks", << v >>,
                     Ret(status, [header EXCEPT !.disable_hdr_checks = v]))

CheckHeader ==
    /\ budget > 0
    /\ p_check_header(header) # Undefined
    /\ HeaderCall("p_check_header", << >>, Ret(p_check_header(header), header))

GetColorFormat ==
    /\ budget > 0
    /\ NumberCall("p_get_color_format", << >>, header,
                  p_get_color_format(header))

NextCheck ==
    \/ SizeImage
    \/ SetComp
    \/ SetDisableHdrChecks
    \/ CheckHeader
    \/ GetColorFormat

SpecCheck == InitCheck /\ [][NextCheck]_vars

----------------------------------------------------------------------------
(* An application that works on more files than the library keeps open:   *)
(* it has written the headers of the first files of FileSeq, and image 2  *)
(* of the first of them, and makes up to MaxFileCalls calls more before   *)
(* it exits.                                                              *)

MaxFileCalls == 3

\* the names of the files, in the order the application creates them
FileSeq ==
    << "f1", "f2", "f3", "f4", "f5", "f6", "f7", "f8", "f9", "f10", "f11",
       "f12" >>

\* the files the application has created at the start: none, and as many
\* as the library keeps open
CreatedAtStart == {0, 10}

\* the files the calls of a run name: the two created first, and two that
\* were not created, of which "f12" exists
CallFiles == {"f1", "f2", "f11", "f12"}

\* the library state before the first call: no file is open, "f12" exists
NoOpenFiles ==
    [p_files |-> [i \in 1..P_MAX_OPEN_FILES |-> EmptySlot],
     p_file_count |-> 0, p_event_count |-> 0,
     disk |-> [n \in {FileSeq[i] : i \in DOMAIN FileSeq} |->
                 [exists |-> n = "f12", full |-> FALSE,
                  nr_images |-> IF n = "f12" THEN FmtInt(1, P_SNR_IMAGES)
                                ELSE << >>]],
     acc |-> << >>]

\* the header of the k-th file, of one image, written to a file that does
\* not exist yet; after the first header image 2 of the file is written
Create(t, k) ==
    IF t.disk[FileSeq[k]].exists THEN t
    ELSE IF k = 1
    THEN WriteImageFile(WriteHdrFile(t, FileSeq[k], 1, FALSE).t,
                        FileSeq[k], 2).t
    ELSE WriteHdrFile(t, FileSeq[k], 1, FALSE).t

RECURSIVE AtStart(_)
\* the library state after the first k files were created
AtStart(k) == IF k = 0 THEN NoOpenFiles ELSE Create(AtStart(k - 1), k)

\* the static data of a library state
Admin(t) ==
    [p_files |-> t.p_files, p_file_count |-> t.p_file_count,
     p_event_count |-> t.p_event_count]

\* the library state the next call works on
T ==
    [p_files |-> p_files.p_files, p_file_count |-> p_files.p_file_count,
     p_event_count |-> p_files.p_event_count, disk |-> disk, acc |-> << >>]

InitFiles ==
    /\ \E k \in CreatedAtStart :
          /\ p_files = Admin(AtStart(k))
          /\ disk = AtStart(k).disk
    /\ \E a \in {a \in CreateArgs : a[1] = "P_NO_COLOR" /\ a[5] = 1} :
          header = Created(ZeroHeader, a).header
    /\ op = [name |-> "p_write_frame", args |-> << >>]
    /\ status = "P_OK"
    /\ result = 0
    /\ accesses = << >>
    /\ membuf = << >>
    /\ budget = MaxFileCalls

\* a call that works on the files, while the application runs
AdminCall(name, args, r) ==
    /\ budget > 0
    /\ op.name # "exit"
    /\ p_files' = Admin(r.t)
    /\ disk' = r.t.disk
    /\ accesses' = r.t.acc
    /\ status' = r.status
    /\ op' = [name |-> name, args |-> args]
    /\ budget' = budget - 1
    /\ UNCHANGED << header, result, membuf >>

OpenFile ==
    \E filename \in CallFiles, write \in {0, 1} :
        AdminCall("p_open_file", << filename, write >>,
                  p_open_file(T, filename, write))

CloseFile ==
    \E filename \in CallFiles \cup {"NULL"} :
        AdminCall("p_close_file", << filename >>, p_close_file(T, filename))

\* p_write_header or p_rewrite_header with a header of nr_images images
WriteHdr ==
    \E filename \in CallFiles, nr_images \in {3}, rewrite \in BOOLEAN :
        AdminCall("p_write_hdr", << filename, nr_images, rewrite >>,
                  WriteHdrFile(T, filename, nr_images, rewrite))

\* a call that writes a component of image nr
WriteImage ==
    \E filename \in CallFiles, nr \in {1, 2} :
        AdminCall("p_write_image", << filename, nr >>,
                  WriteImageFile(T, filename, nr))

\* the application exits: the function registered with atexit runs
Exit ==
    /\ op.name # "exit"
    /\ p_files' = Admin(p_atexit_close(T).t)
    /\ disk' = p_atexit_close(T).t.disk
    /\ accesses' = p_atexit_close(T).t.acc
    /\ op' = [name |-> "exit", args |-> << >>]
    /\ UNCHANGED << header, status, result, membuf, budget >>

NextFiles ==
    \/ OpenFile
    \/ CloseFile
    \/ WriteHdr
    \/ WriteImage
    \/ Exit

SpecFiles == InitFiles /\ [][NextFiles]_vars

\* an application ends: the exit is not put off for ever
SpecFilesFair == SpecFiles /\ WF_vars(Exit)

----------------------------------------------------------------------------
(* An application that reads a file of one frame of 4 x 4 samples, in each *)
(* colour format, with each of the component modes, up to MaxReadCalls     *)
(* times.                                                                  *)

MaxReadCalls == 1

\* the arguments of p_create_ext_header for the file that is read
ReadCreateArgs ==
    { << c, IF c = "P_STREAM" THEN "P_25HZ" ELSE "P_50HZ", "P_SD", 0, p,
         "P_4_3" >> :
        c \in {"P_NO_COLOR", "P_COLOR_422", "P_COLOR_420", "P_COLOR_444_PL",
               "P_COLOR_422_PL", "P_COLOR_420_PL", "P_COLOR_RGB",
               "P_COLOR_XYZ", "P_STREAM"},
        p \in {0, 1} }

\* the header of two frames of 4 x 4 samples
Sized(a) ==
    p_mod_num_frames(
        p_mod_image_size(Created(ZeroHeader, a).header, 4, 4).header, 2)

\* the file with the header h and its first frame
WithFirstFrame(w, h) ==
    IF p_check_planar(p_get_color_format(h)) = "P_OK"
    THEN p_write_frame_planar(w, TheFile, h, 1, Bufs(0, 0, Tight), Tight.width,
             Tight.height, Tight.stride, Tight.stride)
    ELSE p_write_frame(w, TheFile, h, 1, Bufs(0, 0, Tight), Tight.width,
             Tight.height, Tight.stride)

\* the header of the file as p_write_header leaves it
Written(a) == p_write_header(W0, TheFile, Sized(a).header)

\* the library after the header and the first frame were written
FileOfFrame(a) ==
    WithFirstFrame([Written(a).w EXCEPT !.acc = << >>], Written(a).header)

InitRead ==
    \E a \in ReadCreateArgs :
        /\ Created(ZeroHeader, a).status = "P_OK"
        /\ Sized(a).status = "P_OK"
        /\ Written(a).status = "P_OK"
        /\ FileOfFrame(a).status = "P_OK"
        /\ header = Written(a).header
        /\ disk = FileOfFrame(a).w.disk
        /\ p_files = FileOfFrame(a).w.p_files
        /\ op = [name |-> "p_write_frame", args |-> << >>]
        /\ status = "P_OK"
        /\ result = 0
        /\ accesses = FileOfFrame(a).w.acc
        /\ membuf = << >>
        /\ budget = MaxReadCalls

\* the read modes of the functions for bytes
AllReadModes8 == {ReadMode(m, "P_8_BIT_MEM") : m \in ComponentModes}

ReadFieldMode ==
    /\ budget > 0
    /\ \E frame \in Frames, field \in Fields, mode \in AllReadModes8 :
          ReadCall("p_read_field",
              Args(frame, field, P_NORMAL_COMP, Bufs(0, 0, TightField),
                  TightField, 0, mode),
              p_read_field(W, TheFile, header, frame, field, Bufs(0, 0,
                  TightField), mode, TightField.width, TightField.height,
                  TightField.stride))

ReadFrameMode ==
    /\ budget > 0
    /\ \E frame \in Frames, mode \in AllReadModes8 :
          ReadCall("p_read_frame",
              Args(frame, 0, P_NORMAL_COMP, Bufs(0, 0, Tight), Tight, 0, mode),
              p_read_frame(W, TheFile, header, frame, Bufs(0, 0, Tight), mode,
                  Tight.width, Tight.height, Tight.stride))

ReadFieldPlanarMode ==
    /\ budget > 0
    /\ \E frame \in Frames, field \in Fields, mode \in AllReadModes8 :
          ReadCall("p_read_field_planar",
              Args(frame, field, P_NORMAL_COMP, Bufs(0, 0, TightField),
                  TightField, TightField.stride, mode),
              p_read_field_planar(W, TheFile, header, frame, field, Bufs(0, 0,
                  TightField), mode, TightField.width, TightField.height,
                  TightField.stride, TightField.stride))

ReadFramePlanarMode ==
    /\ budget > 0
    /\ \E frame \in Frames, mode \in AllReadModes8 :
          ReadCall("p_read_frame_planar",
              Args(frame, 0, P_NORMAL_COMP, Bufs(0, 0, Tight), Tight,
                  Tight.stride, mode),
              p_read_frame_planar(W, TheFile, header, frame, Bufs(0, 0,
                  Tight), mode, Tight.width, Tight.height, Tight.stride,
                  Tight.stride))

NextRead ==
    \/ ReadFieldMode
    \/ ReadFrameMode
    \/ ReadFieldPlanarMode
    \/ ReadFramePlanarMode

SpecRead == InitRead /\ [][NextRead]_vars

----------------------------------------------------------------------------
(* An application that writes frames and fields of 4 x 4 samples from      *)
(* buffers of unsigned short, to a file of each file data format with each *)
(* memory data format, up to MaxWriteCalls times.                          *)

MaxWriteCalls == 1

\* the arguments of p_create_ext_header for the file that is written
WriteCreateArgs ==
    { << c, "P_50HZ", "P_SD", 0, p, "P_4_3" >> :
        c \in {"P_NO_COLOR", "P_COLOR_422", "P_COLOR_444_PL"}, p \in {0, 1} }

\* the file data formats of a file of a luminance or YUV colour format
WriteFileFormats ==
    {"P_8_BIT_FILE", "P_10_BIT_FILE", "P_12_BIT_FILE", "P_14_BIT_FILE",
     "P_16_BIT_FILE"}

\* the memory data formats the application writes with
WriteModes16 ==
    {"P_8_BIT_MEM", "P_10_BIT_MEM", "P_12_BIT_MEM", "P_14_BIT_MEM",
     "P_16_BIT_MEM", "P_AF_BIT_MEM"}

\* the header of two frames of 4 x 4 samples in file data format f, written
\* to the file
WrittenAs(a, f) ==
    p_write_header(W0, TheFile,
                   p_mod_file_data_format(Sized(a).header, f).header)

InitWrite ==
    \E a \in WriteCreateArgs, f \in WriteFileFormats :
        /\ Created(ZeroHeader, a).status = "P_OK"
        /\ p_mod_file_data_format(Sized(a).header, f).status = "P_OK"
        /\ WrittenAs(a, f).status = "P_OK"
        /\ header = WrittenAs(a, f).header
        /\ disk = WrittenAs(a, f).w.disk
        /\ p_files = WrittenAs(a, f).w.p_files
        /\ op = [name |-> "p_write_header", args |-> << TheFile, 1 >>]
        /\ status = "P_OK"
        /\ result = 0
        /\ accesses = WrittenAs(a, f).w.acc
        /\ membuf = << >>
        /\ budget = MaxWriteCalls

WriteField16Mode ==
    /\ budget > 0
    /\ \E frame \in Frames, field \in Fields, mode \in WriteModes16 :
          WriteCall("p_write_field_16",
              Args(frame, field, P_NORMAL_COMP, Bufs(0, 0, TightField),
                  TightField, 0, mode),
              p_write_field_16(W, TheFile, header, frame, field, Bufs(0, 0,
                  TightField), mode, TightField.width, TightField.height,
                  TightField.stride))

WriteFrame16Mode ==
    /\ budget > 0
    /\ \E frame \in Frames, mode \in WriteModes16 :
          WriteCall("p_write_frame_16",
              Args(frame, 0, P_NORMAL_COMP, Bufs(0, 0, Tight), Tight, 0, mode),
              p_write_frame_16(W, TheFile, header, frame, Bufs(0, 0, Tight),
                  mode, Tight.width, Tight.height, Tight.stride))

WriteFieldPlanar16Mode ==
    /\ budget > 0
    /\ \E frame \in Frames, field \in Fields, mode \in WriteModes16 :
          WriteCall("p_write_field_planar_16",
              Args(frame, field, P_NORMAL_COMP, Bufs(0, 0, TightField),
                  TightField, TightField.stride, mode),
              p_write_field_planar_16(W, TheFile, header, frame, field,
                  Bufs(0, 0, TightField), mode, TightField.width,
                  TightField.height, TightField.stride, TightField.stride))

WriteFramePlanar16Mode ==
    /\ budget > 0
    /\ \E frame \in Frames, mode \in WriteModes16 :
          WriteCall("p_write_frame_planar_16",
              Args(frame, 0, P_NORMAL_COMP, Bufs(0, 0, Tight), Tight,
                  Tight.stride, mode),
              p_write_frame_planar_16(W, TheFile, header, frame, Bufs(0, 0,
                  Tight), mode, Tight.width, Tight.height, Tight.stride,
                  Tight.stride))

NextWrite ==
    \/ WriteField16Mode
    \/ WriteFrame16Mode
    \/ WriteFieldPlanar16Mode
    \/ WriteFramePlanar16Mode

SpecWrite == InitWrite /\ [][NextWrite]_vars

----------------------------------------------------------------------------
(* An application that converts floats of 16 bits to floats and back, and  *)
(* has the library check its conversions, up to MaxF16Calls times.         *)

MaxF16Calls == 2

\* the unsigned shorts
F16Patterns == 0 .. (Pow2(16) - 1)

\* the literals of p_cce_check_float_conversion, and the float of the
\* least bits
FloatInputs ==
    { FloatLiteral(1, 42, 1), FloatLiteral(0, 65504, 1),
      FloatLiteral(1, 65536, 1), FloatLiteral(0, 123, 10000), F32(0, 0, 1) }

\* the application holds the 16 bits x
InitF16 ==
    /\ header = ZeroHeader
    /\ disk = [n \in FileNames |-> NoFile]
    /\ p_files = [n \in FileNames |-> ClosedFile]
    /\ \E x \in F16Patterns : op = [name |-> "f16", args |-> << x >>]
    /\ status = "P_OK"
    /\ result = 0
    /\ accesses = << >>
    /\ membuf = << >>
    /\ budget = MaxF16Calls

\* the 16 bits the application holds are converted
F16ToFloat ==
    /\ budget > 0
    /\ op.name = "f16"
    /\ NumberCall("p_cce_f16_to_float", op.args, header,
                  p_cce_f16_to_float(op.args[1]))

\* a float is converted: the one the last call gave, or a literal
FloatToF16 ==
    /\ budget > 0
    /\ \E f \in FloatInputs
               \cup (IF op.name = "p_cce_f16_to_float" THEN {result} ELSE {}) :
          NumberCall("p_cce_float_to_f16", << f >>, header,
                     p_cce_float_to_f16(f))

CheckFloatConversion ==
    /\ budget > 0
    /\ HeaderCall("p_cce_check_float_conversion", << >>,
                  Ret(p_cce_check_float_conversion, header))

NextF16 ==
    \/ F16ToFloat
    \/ FloatToF16
    \/ CheckFloatConversion

SpecF16 == InitF16 /\ [][NextF16]_vars

----------------------------------------------------------------------------
(* An application as that of SpecFiles, on a system where the fwrite of    *)
(* p_close_idx, of the number of images, may fail: it makes up to          *)
(* MaxCloseCalls calls.                                                    *)

MaxCloseCalls == 2

\* the library state the next call works on, with the devices of the
\* files full, or not, during the call: when full, the fwrite of
\* p_close_idx fails
TF(fails) ==
    [T EXCEPT !.disk = [n \in DOMAIN @ |-> [@[n] EXCEPT !.full = fails]]]

InitClose ==
    /\ \E k \in CreatedAtStart :
          /\ p_files = Admin(AtStart(k))
          /\ disk = AtStart(k).disk
    /\ \E a \in {a \in CreateArgs : a[1] = "P_NO_COLOR" /\ a[5] = 1} :
          header = Created(ZeroHeader, a).header
    /\ op = [name |-> "p_write_frame", args |-> << >>]
    /\ status = "P_OK"
    /\ result = 0
    /\ accesses = << >>
    /\ membuf = << >>
    /\ budget = MaxCloseCalls

OpenFileOrFail ==
    \E filename \in CallFiles, write \in {0, 1}, fails \in BOOLEAN :
        AdminCall("p_open_file", << filename, write, fails >>,
                  p_open_file(TF(fails), filename, write))

CloseFileOrFail ==
    \E filename \in CallFiles \cup {"NULL"}, fails \in BOOLEAN :
        AdminCall("p_close_file", << filename, fails >>,
                  p_close_file(TF(fails), filename))

WriteHdrOrFail ==
    \E filename \in CallFiles, rewrite \in BOOLEAN, fails \in BOOLEAN :
        AdminCall("p_write_hdr", << filename, rewrite, fails >>,
                  WriteHdrFile(TF(fails), filename, 3, rewrite))

WriteImageOrFail ==
    \E filename \in CallFiles, nr \in {1, 2}, fails \in BOOLEAN :
        AdminCall("p_write_image", << filename, nr, fails >>,
                  WriteImageFile(TF(fails), filename, nr))

NextClose ==
    \/ OpenFileOrFail
    \/ CloseFileOrFail
    \/ WriteHdrOrFail
    \/ WriteImageOrFail

SpecClose == InitClose /\ [][NextClose]_vars

----------------------------------------------------------------------------
(* An application that makes a header and changes its number of frames,    *)
(* its interlacing, its image rate and its colour format, up to MaxCalls   *)
(* times.                                                                  *)

\* the numbers of frames the application sets
FrameCounts == 0..3

ModFrames ==
    /\ budget > 0
    /\ \E num_frames \in FrameCounts :
          HeaderCall("p_mod_num_frames", << num_frames >>,
                     p_mod_num_frames(header, num_frames))

NextFrames ==
    \/ CreateExtHeader
    \/ ModFrames
    \/ ModToProgressive
    \/ ModToInterlaced
    \/ ModToDblImageRate
    \/ ModToOnehalfImageRate
    \/ ModColorFormat

SpecFrames == InitHeader /\ [][NextFrames]_vars

----------------------------------------------------------------------------
(* An application that adds and removes auxiliary headers with data of     *)
(* about a record in each image, up to MaxPayloadCalls times.              *)

MaxPayloadCalls == 4

\* max_size, name, descr_len and the character of the description: with
\* the 8 bytes of its length the data of "A" fills a record of 512 bytes,
\* that of "B" takes one byte more, "P" has no data in an image
PayloadArgs ==
    { << 504, "A    ", 0, "d" >>,
      << 505, "B    ", 0, "d" >>,
      << 0, "P    ", 4, "d" >>,
      << 4, "G    ", 0, "d" >> }

\* the auxiliary headers the application removes
PayloadIds == 0 .. 2

InitPayload ==
    /\ \E a \in {a \in CreateArgs : a[1] = "P_NO_COLOR"} :
          header = Created(ZeroHeader, a).header
    /\ disk = [n \in FileNames |-> NoFile]
    /\ p_files = [n \in FileNames |-> ClosedFile]
    /\ op = [name |-> "p_create_ext_header", args |-> << >>,
             aux_hdrs |-> << >>]
    /\ status = "P_OK"
    /\ result = 0
    /\ accesses = << >>
    /\ membuf = << >>
    /\ budget = MaxPayloadCalls

PayloadAdd ==
    /\ budget > 0
    /\ \E a \in PayloadArgs :
          AuxHeaderCall("p_mod_add_aux", a,
              Ret("none", p_mod_add_aux(header, a[1], a[2], a[3], a[4])),
              p_mod_add_aux_result(header, a[1], a[2], a[3]))

PayloadRm ==
    /\ budget > 0
    /\ \E aux_id \in PayloadIds :
          AuxHeaderCall("p_mod_rm_aux", << aux_id >>,
                        p_mod_rm_aux(header, aux_id), 0)

NextPayload ==
    \/ PayloadAdd
    \/ PayloadRm

SpecPayload == InitPayload /\ [][NextPayload]_vars

----------------------------------------------------------------------------
(* An application that has written the header of a file of two frames of   *)
(* 4 x 4 samples with up to three auxiliary headers, and writes and reads  *)
(* the auxiliary data of its images, up to MaxAuxDataCalls times.          *)

MaxAuxDataCalls == 2

\* the auxiliary headers of a file, in the order they were added: none,
\* one, or three of which the first is small and the last large
Catalogs ==
    {<< >>}
    \cup {<< a >> : a \in {a \in PayloadArgs : a[1] \in {0, 505}}}
    \cup {c \in PayloadArgs \X PayloadArgs \X PayloadArgs :
            /\ c[1][1] <= 4 /\ c[3][1] >= 504
            /\ c[2] # c[1] /\ c[2] # c[3]}

RECURSIVE WithCatalog(_, _)
\* the header with the auxiliary headers c added
WithCatalog(h, c) ==
    IF c = << >> THEN h
    ELSE p_mod_add_aux(WithCatalog(h, SubSeq(c, 1, Len(c) - 1)),
                       c[Len(c)][1], c[Len(c)][2], c[Len(c)][3],
                       c[Len(c)][4])

\* the header of the file, written to it
WrittenWith(a, c) ==
    p_write_header(W0, TheFile, WithCatalog(Sized(a).header, c))

InitAuxData ==
    \E a \in {a \in WriteCreateArgs : a[1] = "P_NO_COLOR"}, c \in Catalogs :
        /\ WrittenWith(a, c).status = "P_OK"
        /\ header = WrittenWith(a, c).header
        /\ disk = WrittenWith(a, c).w.disk
        /\ p_files = WrittenWith(a, c).w.p_files
        /\ op = [name |-> "p_write_header", args |-> << TheFile, 1 >>]
        /\ status = "P_OK"
        /\ result = 0
        /\ accesses = WrittenWith(a, c).w.acc
        /\ membuf = << >>
        /\ budget = MaxAuxDataCalls

\* the auxiliary headers the application names, the sizes it writes and
\* the frames and fields it names
AuxDataIds == 0 .. 2
AuxDataSizes == {0, 4, 505}
AuxDataImages == {<< 1, 0 >>, << 2, 2 >>}

WriteAuxData ==
    /\ budget > 0
    /\ \E n \in AuxDataImages, aux_id \in AuxDataIds, size \in AuxDataSizes :
          WriteCall("p_write_aux",
              AuxArgs(n[1], n[2], aux_id, size, Buffer(0, 0, 505, 0)),
              p_write_aux(W, TheFile, header, n[1], n[2], aux_id, size,
                          Buffer(0, 0, 505, 0)))

ReadAuxData ==
    /\ budget > 0
    /\ \E n \in AuxDataImages, aux_id \in AuxDataIds :
          AuxReadCall("p_read_aux",
              AuxArgs(n[1], n[2], aux_id, 0, Buffer(0, 0, 505, 0)),
              p_read_aux(W, TheFile, header, n[1], n[2], aux_id,
                         Buffer(0, 0, 505, 0)))

NextAuxData ==
    \/ WriteAuxData
    \/ ReadAuxData

SpecAuxData == InitAuxData /\ [][NextAuxData]_vars

----------------------------------------------------------------------------
(* An application that opens, writes and closes a file that exists and     *)
(* opens one that does not, up to MaxSlotCalls times.                      *)

MaxSlotCalls == 4

\* the files the calls name: one that was created, one that was not
SlotFiles == {"f2", "f11"}

InitSlots ==
    /\ \E k \in CreatedAtStart :
          /\ p_files = Admin(AtStart(k))
          /\ disk = AtStart(k).disk
    /\ \E a \in {a \in CreateArgs : a[1] = "P_NO_COLOR" /\ a[5] = 1} :
          header = Created(ZeroHeader, a).header
    /\ op = [name |-> "p_write_frame", args |-> << >>]
    /\ status = "P_OK"
    /\ result = 0
    /\ accesses = << >>
    /\ membuf = << >>
    /\ budget = MaxSlotCalls

OpenSlotFile ==
    \E filename \in SlotFiles, write \in {0, 1} :
        AdminCall("p_open_file", << filename, write >>,
                  p_open_file(T, filename, write))

CloseSlotFile ==
    \E filename \in SlotFiles \cup {"NULL"} :
        AdminCall("p_close_file", << filename >>, p_close_file(T, filename))

\* a call that writes a component of image 1
WriteSlotFile ==
    \E filename \in SlotFiles :
        AdminCall("p_write_image", << filename, 1 >>,
                  WriteImageFile(T, filename, 1))

\* a call that reads: the file is opened for reading
ReadSlotFile ==
    \E filename \in SlotFiles :
        AdminCall("p_read_image", << filename, 1 >>,
                  [status |-> IF NoPointer(FilePointer(T, filename,
                                                       "p_mode_read"))
                              THEN "P_FILE_OPEN_FAILED" ELSE "P_OK",
                   t |-> FilePointer(T, filename, "p_mode_read").t])

NextSlots ==
    \/ OpenSlotFile
    \/ CloseSlotFile
    \/ WriteSlotFile
    \/ ReadSlotFile

SpecSlots == InitSlots /\ [][NextSlots]_vars

----------------------------------------------------------------------------
(* The auxiliary headers: properties of SpecAux                            *)

\* the offsets of the auxiliary headers of a header
Catalog(h) == AuxChain(h.aux_hdrs, 0)

\* the bytes of the name field of the auxiliary header at offset
NameBytes(h, offset) == BytesAt(h.aux_hdrs, offset + P_SAUX_HDRLEN, P_SAUX_NAME)

\* the name fields of the auxiliary headers at the offsets chain
NamesOf(h, chain) == [i \in 1..Len(chain) |-> NameBytes(h, chain[i])]

\* one of names is name, filled with spaces
NameIn(names, name) ==
    \E i \in 1..Len(names) : names[i] = PadRight(StrChars(name), P_SAUX_NAME)

\* an auxiliary header of h carries name
NamePresent(h, name) == NameIn(NamesOf(h, Catalog(h)), name)

\* no two of names are the same
AllDifferent(names) ==
    \A i, j \in 1..Len(names) : i # j => names[i] # names[j]

\* no two auxiliary headers of h carry the same name
UniqueNames(h) == AllDifferent(NamesOf(h, Catalog(h)))

\* the call made is p_mod_add_aux
AddCall == op'.name = "p_mod_add_aux"

\* the call made is p_mod_rm_aux
RmCall == op'.name = "p_mod_rm_aux"

\* C11: after any sequence of p_mod_add_aux and p_mod_rm_aux calls no two
\* auxiliary headers carry the same name, and p_mod_add_aux with a name
\* that is present returns -1 and leaves the auxiliary headers unchanged.
C11_UniqueNames ==
    [][/\ UniqueNames(header')
       /\ AddCall /\ NamePresent(header, op'.args[2])
            => result' = -1 /\ header' = header]_vars

\* p_mod_add_aux was refused for the name alone: the header named is
\* present, and there is space for it
C11_Witness ==
    /\ op.name = "p_mod_add_aux"
    /\ result = -1
    /\ op.args[2] = "P    "
    /\ NamePresent(header, "P    ")
    /\ p_get_num_aux(header) = 3
    /\ UsedBytes(header.aux_hdrs) < P_SAUX_HDR \div 2

\* the bytes the auxiliary headers of h take, the sentinel and the byte
\* that ends it with them
CatalogBytes(h) ==
    ChainEnd(h.aux_hdrs, Catalog(h)) + P_SAUX_HDRLEN + 1

\* a header with a description of descr_len bytes, and the sentinel after
\* it, do not fit behind the auxiliary headers of h
WouldNotFit(h, descr_len) ==
    CatalogBytes(h) + P_SMIN_VALID + descr_len > P_SAUX_HDR

\* C12: p_mod_add_aux returns -1 and changes no byte of the header when
\* the new auxiliary header (48 bytes and the description) with the
\* sentinel after it would not fit in the array of P_SAUX_HDR bytes; the
\* auxiliary headers and the sentinel never reach beyond the array.
C12_NeverBeyondArray ==
    [][/\ CatalogBytes(header') <= P_SAUX_HDR
       /\ UsedBytes(header'.aux_hdrs) <= P_SAUX_HDR
       /\ AddCall /\ WouldNotFit(header, op'.args[3])
            => result' = -1 /\ header' = header]_vars

\* p_mod_add_aux was refused for the space alone: the header lacks four
\* bytes of the space it needs, and its name is new
C12_Witness ==
    /\ op.name = "p_mod_add_aux"
    /\ result = -1
    /\ ~NamePresent(header, op.args[2])
    /\ CatalogBytes(header) + P_SMIN_VALID + op.args[3] = P_SAUX_HDR + 4
    /\ header.aux_hdrs = op.aux_hdrs

\* the call before was a p_mod_add_aux that added a header, and the call
\* made is p_mod_rm_aux of the id it returned
RmOfAdded ==
    /\ op.name = "p_mod_add_aux"
    /\ result >= 0
    /\ RmCall
    /\ op'.args[1] = result

\* C13: p_mod_add_aux that succeeds, followed by p_mod_rm_aux of the id
\* returned, leaves the array of the auxiliary headers as it was before
\* the two calls, byte for byte.
C13_AddThenRm ==
    [][RmOfAdded => status' = "P_OK" /\ header'.aux_hdrs = op.aux_hdrs]_vars

\* the second of two headers, one of half the array, was removed again,
\* and the first is left
C13_Witness ==
    /\ op.name = "p_mod_rm_aux"
    /\ status = "P_OK"
    /\ op.args[1] = 1
    /\ p_get_num_aux(header) = 1
    /\ op.aux_hdrs # header.aux_hdrs
    /\ UsedBytes(op.aux_hdrs) > P_SAUX_HDR \div 2
    /\ NamePresent(header, "A    ")

\* what a call adds to the number of the auxiliary headers
CountChange ==
    IF AddCall /\ result' >= 0 THEN 1
    ELSE IF RmCall /\ status' = "P_OK" THEN -1
    ELSE 0

\* C14: p_get_num_aux is the number of auxiliary headers before the
\* sentinel: that at the start, one more with each p_mod_add_aux that
\* succeeds and one less with each p_mod_rm_aux that succeeds; the ids
\* from 0 to the number less one are the valid ids, and no others.
C14_NumAux ==
    [][/\ p_get_num_aux(header') = p_get_num_aux(header) + CountChange
       /\ p_get_num_aux(header') = Len(Catalog(header'))
       /\ AddCall /\ result' >= 0 => result' = p_get_num_aux(header)
       /\ RmCall => (status' = "P_OK"
                        <=> op'.args[1] \in 0 .. (p_get_num_aux(header) - 1))
      ]_vars

\* the last call of a run added the third header, to one without data in
\* an image
C14_Witness ==
    /\ p_get_num_aux(header) = 3
    /\ op.name = "p_mod_add_aux"
    /\ result = 2
    /\ NamePresent(header, "P    ")
    /\ budget = 0

----------------------------------------------------------------------------
(* The checks of the header: properties of SpecCheck                       *)

\* the call made is p_check_header
CheckCall == op'.name = "p_check_header"

\* the pixels or the lines of component 0 are not those of the active
\* size, as they are in every colour format
Comp0Inconsistent(h) ==
    /\ h.nr_compon >= 1
    /\ \/ h.comp[1].pix_line # h.act_pixel
       \/ h.comp[1].lin_image * h.interlace # h.act_lines

Matching(h) == {f \in DOMAIN p_default_formats : MatchesFormat(h, f)}

\* the last of a set of entries
LastOf(m) == CHOOSE f \in m : \A g \in m : g <= f

\* the colour format a header resolves to
Resolved(h) ==
    IF Matching(h) = {} THEN "P_UNKNOWN_COLOR"
    ELSE p_default_formats[LastOf(Matching(h))].format

\* C16: the colour format found for a header is that of the last entry
\* of p_default_formats all of whose components match the header (name,
\* subsample factors, and pix_line * pix_sbsmpl = act_pixel * multiplex);
\* a header that matches several entries has the format of the last of
\* them, one that matches none gives P_ILLEGAL_COLOR_FORMAT.
C16_LastMatchingFormat ==
    [][/\ op'.name = "p_get_color_format" => result' = Resolved(header)
       /\ p_check_color_format(header') = Resolved(header')
       /\ p_check_color_format_status(header') = "P_ILLEGAL_COLOR_FORMAT"
            <=> Matching(header') = {}
       /\ (/\ CheckCall
           /\ header.disable_hdr_checks = 0
           /\ p_check_hdr_basic(header) = "P_OK"
           /\ Matching(header) = {})
            => status' = "P_ILLEGAL_COLOR_FORMAT"]_vars

\* a header that matches the entries of P_NO_COLOR and of P_COLOR_422_PL
\* was found to be P_COLOR_422_PL
C16_Witness ==
    /\ op.name = "p_get_color_format"
    /\ result = "P_COLOR_422_PL"
    /\ Cardinality(Matching(header)) = 2

----------------------------------------------------------------------------
(* The open files: properties of SpecFiles and SpecFilesFair               *)

\* the names of the open files
OpenNames(a) == {a.p_files[i].name : i \in OpenSlots(a)}

\* the open file that was used before all other open files
LeastRecent(a) ==
    CHOOSE i \in OpenSlots(a) :
        \A j \in OpenSlots(a) : a.p_files[i].timestamp <= a.p_files[j].timestamp

\* the names of the files closed by the calls acc, one for each close
ClosedBy(acc) ==
    [k \in {k \in DOMAIN acc : acc[k].call = "fclose"} |-> acc[k].name]

\* the call made needs a file that is not open, while as many files are
\* open as the library keeps open
EleventhFile ==
    /\ op'.name \in {"p_open_file", "p_write_hdr", "p_write_image"}
    /\ Cardinality(OpenSlots(p_files)) = P_MAX_OPEN_FILES
    /\ op'.args[1] \notin OpenNames(p_files)

\* slot idx is the only slot that changed, and holds the file name if its
\* file is open
OnlySlotReused(idx, name) ==
    /\ \A j \in 1..P_MAX_OPEN_FILES :
          j # idx => p_files'.p_files[j] = p_files.p_files[j]
    /\ p_files'.p_files[idx].fp # 0 => p_files'.p_files[idx].name = name
    /\ disk'[name].exists => p_files'.p_files[idx].fp # 0

\* C17: never more than P_MAX_OPEN_FILES files are open; when a file is
\* needed that is not open while P_MAX_OPEN_FILES files are open, the
\* least recently used open file and no other is closed, and its slot is
\* used for the file.
C17_LeastRecentlyUsedClosed ==
    [][/\ Cardinality(OpenSlots(p_files')) <= P_MAX_OPEN_FILES
       /\ p_files'.p_file_count <= P_MAX_OPEN_FILES
       /\ EleventhFile
            => /\ Cardinality(DOMAIN ClosedBy(accesses')) = 1
               /\ \A k \in DOMAIN ClosedBy(accesses') :
                     ClosedBy(accesses')[k]
                        = p_files.p_files[LeastRecent(p_files)].name
               /\ OnlySlotReused(LeastRecent(p_files), op'.args[1])]_vars

\* "f11" was created while ten files were open, after "f1", the file
\* opened first, was used again: "f2" was closed for it
C17_Witness ==
    /\ op.name = "p_open_file"
    /\ op.args = << "f11", 1 >>
    /\ status = "P_OK"
    /\ Cardinality(OpenSlots(p_files)) = P_MAX_OPEN_FILES
    /\ "f1" \in OpenNames(p_files)
    /\ "f2" \notin OpenNames(p_files)
    /\ p_files.p_files[2].name = "f11"

\* more images were written to the open file f than its header counts
Pending(f) == f.fp # 0 /\ f.no_of_images > f.hdr_nr_images

\* the calls acc close the file name
Closes(acc, name) == \E k \in DOMAIN acc : acc[k] = FileOp("fclose", name)

\* the first close of the file name in acc comes straight after a write at
\* the start of the file
CountWrittenBeforeClose(acc, name) ==
    \E k \in 3..Len(acc) :
        /\ acc[k] = FileOp("fclose", name)
        /\ acc[k - 1] = FileOp("fwrite", name)
        /\ acc[k - 2] = FileOp("fseek", name)
        /\ \A m \in 1..(k - 1) : acc[m] # FileOp("fclose", name)

\* the file of f is closed by the call, or f does not need its count
\* written: then the count is written before the close, and the file
\* holds the count of f when the call leaves it closed
ClosedWithCount(f) ==
    (Pending(f) /\ Closes(accesses', f.name))
        => /\ CountWrittenBeforeClose(accesses', f.name)
           /\ f.name \notin OpenNames(p_files')
                => disk'[f.name].nr_images
                        = FmtInt(f.no_of_images, P_SNR_IMAGES)

\* a file is open
SomeFileOpen == OpenSlots(p_files) # {}

----------------------------------------------------------------------------
(* The component modes: properties of SpecRead                             *)

ChrModes == {"P_READ_UV", "P_READ_U", "P_READ_V"}
RgbModes == {"P_READ_R", "P_READ_G", "P_READ_B"}
MultFormats == {"P_COLOR_422", "P_COLOR_420"}
PlanarFormats == {"P_COLOR_444_PL", "P_COLOR_422_PL", "P_COLOR_420_PL"}
RgbFormats == {"P_COLOR_RGB", "P_COLOR_XYZ"}

\* the components of the file the table of the component modes lists for a
\* colour format and a component mode: none where it says error
Listed(cf, m) ==
    CASE cf = "P_NO_COLOR" -> IF m = "P_READ_Y" THEN {0} ELSE {}
      [] cf \in MultFormats ->
            CASE m = "P_READ_ALL" -> {0, 1}
              [] m = "P_READ_Y" -> {0}
              [] m = "P_READ_UV" -> {1}
              [] OTHER -> {}
      [] cf \in PlanarFormats ->
            CASE m = "P_READ_ALL" -> {0, 1, 2}
              [] m = "P_READ_Y" -> {0}
              [] m = "P_READ_UV" -> {1, 2}
              [] m = "P_READ_U" -> {1}
              [] m = "P_READ_V" -> {2}
              [] OTHER -> {}
      [] cf \in RgbFormats ->
            CASE m \in {"P_READ_ALL", "P_READ_Y"} -> {0, 1, 2}
              [] m = "P_READ_R" -> {0}
              [] m = "P_READ_G" -> {1}
              [] m = "P_READ_B" -> {2}
              [] OTHER -> {}
      [] cf = "P_STREAM" ->
            IF m \in {"P_READ_ALL", "P_READ_Y"} THEN {0} ELSE {}
      [] OTHER -> {}

\* the codes for a component mode that the table does not allow for a
\* colour format
CodesOf(cf, m) ==
    CASE cf = "P_NO_COLOR" /\ m \in ChrModes -> {"P_READ_CHR_FROM_LUM_ONLY"}
      [] cf = "P_NO_COLOR" /\ m \in RgbModes -> {"P_READ_RGB_FROM_LUM_ONLY"}
      [] cf = "P_NO_COLOR" /\ m = "P_READ_ALL" ->
            {"P_READ_CHR_FROM_LUM_ONLY", "P_READ_RGB_FROM_LUM_ONLY"}
      [] cf \in MultFormats /\ m \in {"P_READ_U", "P_READ_V"} ->
            {"P_READ_PLANAR_CHR_FROM_MULT_CHR"}
      [] cf \in MultFormats \cup PlanarFormats /\ m \in RgbModes ->
            {"P_READ_RGB_FROM_YUV"}
      [] cf \in RgbFormats /\ m \in ChrModes -> {"P_READ_CHR_FROM_RGB"}
      [] cf = "P_STREAM" /\ m \in ChrModes -> {"P_READ_CHR_FROM_STREAM"}
      [] cf = "P_STREAM" /\ m \in RgbModes -> {"P_READ_RGB_FROM_STREAM"}
      [] OTHER -> {}

\* the components of the file of header h that the calls acc read from
ComponentsRead(h, acc) ==
    {c \in 0..(h.nr_compon - 1) :
        \E k \in DOMAIN acc, nr \in 1..h.nr_images :
            /\ acc[k].call = "read"
            /\ acc[k].offset >= ComponentOffset(h, nr, c)
            /\ acc[k].offset < ComponentOffset(h, nr, c) + CompBytes(h, c)}

\* the buffers of the caller that samples were stored in
BuffersStored(mem) == {k[1] : k \in DOMAIN mem}

\* the check of the colour format the function called makes
FormatCheck(name, cf) ==
    CASE name = "p_read_field" -> p_check_multiplexed(cf)
      [] name = "p_read_frame" -> p_check_multi_or_stream(cf)
      [] OTHER -> p_check_planar(cf)

\* the call made is a read of a field or a frame that the function called
\* does not reject for the header or for the colour format
ReadOfMode ==
    /\ op'.name \in {"p_read_field", "p_read_frame", "p_read_field_planar",
                     "p_read_frame_planar"}
    /\ Checks(header, FormatCheck(op'.name, p_get_color_format(header))) = "P_OK"
    /\ op'.name \in {"p_read_field", "p_read_field_planar"}
            => p_is_interlaced(header) # 0

\* C19: a read of a field or a frame with a component mode that is not
\* allowed for the colour format of the file reads no component, stores
\* nothing and returns the code of the combination of format and mode; a
\* read with an allowed mode reads from none but the components the table
\* lists for it, and from all of them when it returns P_OK.
C19_ComponentModes ==
    [][ReadOfMode
        => /\ Listed(p_get_color_format(header), op'.args.mode.component_mode) = {}
                => /\ status' \in CodesOf(p_get_color_format(header),
                                         op'.args.mode.component_mode)
                   /\ accesses' = << >>
                   /\ membuf' = << >>
                   /\ disk' = disk
           /\ ComponentsRead(header, accesses')
                \subseteq Listed(p_get_color_format(header),
                                 op'.args.mode.component_mode)
           /\ status' = "P_OK"
                => /\ ComponentsRead(header, accesses')
                        = Listed(p_get_color_format(header),
                                 op'.args.mode.component_mode)
                   /\ BuffersStored(membuf')
                        = Listed(p_get_color_format(header),
                                 op'.args.mode.component_mode)]_vars

\* P_READ_U was refused for the frame of a P_COLOR_422 file
C19_Witness ==
    /\ op.name = "p_read_frame"
    /\ op.args.mode.component_mode = "P_READ_U"
    /\ p_get_color_format(header) = "P_COLOR_422"
    /\ status = "P_READ_PLANAR_CHR_FROM_MULT_CHR"
    /\ accesses = << >>

----------------------------------------------------------------------------
(* The memory data formats of the writes: properties of SpecWrite          *)

\* the bits of a sample in the file of component c
FileBits(h, c) ==
    CASE p_get_comp_data_format(h, c) = "P_8_BIT_FILE" -> 8
      [] p_get_comp_data_format(h, c) = "P_10_BIT_FILE" -> 10
      [] p_get_comp_data_format(h, c) = "P_12_BIT_FILE" -> 12
      [] p_get_comp_data_format(h, c) = "P_14_BIT_FILE" -> 14
      [] OTHER -> 16

\* the bits of a sample in memory
MemBits(mem_data_fmt) ==
    CASE mem_data_fmt = "P_8_BIT_MEM" -> 8
      [] mem_data_fmt = "P_10_BIT_MEM" -> 10
      [] mem_data_fmt = "P_12_BIT_MEM" -> 12
      [] mem_data_fmt = "P_14_BIT_MEM" -> 14
      [] OTHER -> 16

\* the bytes of a sample in the file
ElBytes(file_bits) == IF file_bits = 8 THEN 1 ELSE 2

\* the sample of file_bits bits at offset pos of file f
ElementAt(f, h, pos, file_bits) ==
    IF file_bits = 8 THEN ByteAt(f, pos)
    ELSE IF h.little_endian # 0 THEN ByteAt(f, pos) + 256 * ByteAt(f, pos + 1)
    ELSE 256 * ByteAt(f, pos) + ByteAt(f, pos + 1)

\* the sample of the file for the sample of the memory, by the table of
\* the unsigned short write functions
Converted(sample, file_bits, mem_data_fmt) ==
    IF mem_data_fmt = "P_AF_BIT_MEM"
    THEN sample % Pow2(8 * ElBytes(file_bits))
    ELSE ((sample % Pow2(MemBits(mem_data_fmt)))
            \div Pow2(MAX(0, MemBits(mem_data_fmt) - file_bits)))
         * Pow2(MAX(0, file_bits - MemBits(mem_data_fmt)))

\* the image a call writes
ImageWritten(args) == ImageNumber(args.frame, args.field, args.field # 0)

\* sample x of line y of component c of the image is in the file as the
\* table has it
SampleConverted(f, h, args, c, y, x) ==
    ElementAt(f, h,
              ComponentOffset(h, ImageWritten(args), c)
              + (y * h.comp[c + 1].pix_line + x) * ElBytes(FileBits(h, c)),
              FileBits(h, c))
        = Converted(BufSample(args.bufs[c + 1], "P_UNSIGNED_SHORT",
                              y * args.stride + x),
                    FileBits(h, c), args.mode)

\* all samples of the image the call writes are in the file as the table
\* has them
ImageConverted(f, h, args) ==
    \A c \in 0..(h.nr_compon - 1) :
        \A y \in 0..(MIN(args.height, h.comp[c + 1].lin_image) - 1) :
            \A x \in 0..(h.comp[c + 1].pix_line - 1) :
                SampleConverted(f, h, args, c, y, x)

\* the call made writes a field of an interlaced file or a frame of a
\* progressive file from buffers of unsigned short, and is not rejected
\* for the header or for the colour format
Write16 ==
    /\ \/ /\ op'.name \in {"p_write_field_16", "p_write_field_planar_16"}
          /\ p_is_interlaced(header) # 0
       \/ /\ op'.name \in {"p_write_frame_16", "p_write_frame_planar_16"}
          /\ p_is_progressive(header) # 0
    /\ Checks(header,
              IF op'.name \in {"p_write_field_16"}
              THEN p_check_multiplexed(p_get_color_format(header))
              ELSE IF op'.name = "p_write_frame_16"
              THEN p_check_multi_or_stream(p_get_color_format(header))
              ELSE p_check_planar(p_get_color_format(header))) = "P_OK"

\* C20: a write from buffers of unsigned short returns P_OK for every file
\* data format of 8, 10, 12, 14 and 16 bits and every memory data format
\* of P_8_BIT_MEM .. P_16_BIT_MEM and P_AF_BIT_MEM; the file then holds,
\* for P_AF_BIT_MEM, the samples of the memory as they are, and else the
\* samples masked to the bits of the memory data format and shifted, to
\* the left or to the right, by the difference with the bits of the file.
C20_Write16Conversions ==
    [][Write16 => /\ status' = "P_OK"
                  /\ ImageConverted(disk'[TheFile], header, op'.args)]_vars

----------------------------------------------------------------------------
(* The floats of 16 bits: properties of SpecF16                            *)

\* the value of a finite float is frac / 2 ^ 23 * 2 ^ (exponent - 127),
\* negated for sign 1
IsFloat(f, sign, frac, exponent) ==
    f = F32(sign, exponent, frac - Pow2(23))

\* the call made converts the float that the call before it made of 16 bits
BackFromFloat ==
    /\ op.name = "p_cce_f16_to_float"
    /\ op'.name = "p_cce_float_to_f16"
    /\ op'.args[1] = result

\* C21: the conversion of 16 bits to a float and back gives the 16 bits,
\* for all 65536 of them (the zeros of both signs and the NaNs included);
\* 0xD140 is the float -42.0, and 65504.0, -65536.0 and 0.0123 are 0x7BFF,
\* 0xFC00 and 0x224C; the check of the library passes.
C21_F16RoundTrip ==
    [][/\ BackFromFloat => result' = op.args[1]
       /\ (op'.name = "p_cce_f16_to_float" /\ op'.args[1] = 53568)
            => IsFloat(result', 1, 42 * Pow2(18), 127 + 5)
       /\ (op'.name = "p_cce_f16_to_float" /\ op'.args[1] \in {0, 32768})
            => result' = F32(op'.args[1] \div 32768, 0, 0)
       /\ (op'.name = "p_cce_float_to_f16"
           /\ IsFloat(op'.args[1], 0, 65504 * Pow2(8), 127 + 15))
            => result' = 31743
       /\ (op'.name = "p_cce_float_to_f16"
           /\ IsFloat(op'.args[1], 1, Pow2(23), 127 + 16))
            => result' = 64512
       /\ (op'.name = "p_cce_float_to_f16"
           /\ op'.args[1] = FloatLiteral(0, 123, 10000))
            => result' = 8780
       /\ op'.name = "p_cce_check_float_conversion" => status' = "P_OK"]_vars

\* the least unnormalized number of 16 bits, negative, came back from its
\* float
C21_Witness ==
    /\ op.name = "p_cce_float_to_f16"
    /\ op.args[1] = p_cce_f16_to_float(32769)
    /\ op.args[1].exponent = 103
    /\ result = 32769
    /\ budget = 0

----------------------------------------------------------------------------
(* The status of a close that fails: properties of SpecClose               *)

\* step k of the calls acc is the fwrite of p_close_idx: the close of the
\* file follows it
CountWrite(acc, k) ==
    /\ k < Len(acc)
    /\ acc[k].call = "fwrite"
    /\ acc[k + 1] = FileOp("fclose", acc[k].name)

\* the fwrite of p_close_idx failed in the call made
FailedCountWrite(k) ==
    /\ op'.args[Len(op'.args)] = TRUE
    /\ k \in DOMAIN accesses'
    /\ CountWrite(accesses', k)

\* C22: when the write of the number of images fails while a file is
\* closed - for the least recently used file, for an access in another
\* mode, or as one of the files of p_close_file(NULL) - the call returns a
\* status that is not P_OK, and makes no step on a file after the close
\* of that file.
C22_NoStatusDiscarded ==
    [][\A k \in 1..Len(accesses') :
          FailedCountWrite(k) => /\ status' # "P_OK"
                                 /\ Len(accesses') = k + 1]_vars

----------------------------------------------------------------------------
(* The number of images and the frames: properties of SpecFrames           *)

\* interlace is 1 or 2 and nr_images is a whole number of frames
WholeFrames(h) ==
    /\ h.interlace \in {1, 2}
    /\ h.nr_images = p_get_num_frames(h) * h.interlace

\* C23: after any sequence of calls that make and modify a header and
\* return P_OK, interlace is 1 or 2 and nr_images is
\* p_get_num_frames(header) times interlace, a whole number of frames: a
\* call that makes a header leaves such a header, and a call that
\* modifies such a header leaves it such.
C23_WholeFrames ==
    [][(/\ status' = "P_OK"
        /\ op'.name = "p_create_ext_header" \/ WholeFrames(header))
            => WholeFrames(header')]_vars

----------------------------------------------------------------------------
(* The auxiliary data of an image: properties of SpecPayload               *)

\* the bytes the data of auxiliary header aux_id takes in an image: its
\* maximum size and the 8 bytes of its length, nothing when the maximum
\* size is 0
SlotBytes(h, aux_id) ==
    IF p_get_aux_max_size(h, aux_id) > 0
    THEN p_get_aux_max_size(h, aux_id) + 8
    ELSE 0

RECURSIVE BytesBefore(_, _)
\* the bytes the data of the auxiliary headers before aux_id take
BytesBefore(h, aux_id) ==
    IF aux_id = 0 THEN 0
    ELSE BytesBefore(h, aux_id - 1) + SlotBytes(h, aux_id - 1)

\* T, the bytes of the auxiliary data of an image
PayloadTotal(h) == BytesBefore(h, p_get_num_aux(h))

\* the least number of records of the header that hold n bytes
RecsFor(h, n) ==
    CHOOSE r \in 0..n : r * h.bytes_rec >= n /\ (r = 0 \/ (r - 1) * h.bytes_rec < n)

\* the call made is a p_mod_add_aux or a p_mod_rm_aux that succeeds
CatalogChanged ==
    \/ op'.name = "p_mod_add_aux" /\ result' >= 0
    \/ op'.name = "p_mod_rm_aux" /\ status' = "P_OK"

\* C24: after every p_mod_add_aux or p_mod_rm_aux that succeeds,
\* nr_aux_data_recs is the least number of records of bytes_rec bytes
\* that hold T, the sum over the auxiliary headers with a maximum size
\* above 0 of the maximum size and 8; it is 0 when there is no such
\* header.  A header added with maximum size m adds m + 8 to T, or
\* nothing for m = 0.
C24_AuxDataRecs ==
    [][CatalogChanged
        => /\ header'.nr_aux_data_recs = RecsFor(header', PayloadTotal(header'))
           /\ NumAuxWithData(header') = 0 => header'.nr_aux_data_recs = 0
           /\ op'.name = "p_mod_add_aux"
                => PayloadTotal(header')
                    = PayloadTotal(header)
                      + (IF op'.args[1] > 0 THEN op'.args[1] + 8 ELSE 0)]_vars

\* the header of 505 bytes was added to that of 504 bytes: 1025 bytes,
\* which take three records
C24_Witness ==
    /\ op.name = "p_mod_add_aux"
    /\ op.args[1] = 505
    /\ result = 1
    /\ p_get_aux_max_size(header, 0) = 504
    /\ PayloadTotal(header) = 2 * 512 + 1
    /\ header.nr_aux_data_recs = 3

----------------------------------------------------------------------------
(* The place of the auxiliary data in an image: properties of SpecAuxData  *)

\* the offset of image n of the file of header h
ImageOffset(h, n) == p_get_size_header(h) + (n - 1) * p_get_size_image(h)

\* the bytes of the auxiliary data records of an image
AuxRegion(h) == h.nr_aux_data_recs * h.bytes_rec

\* the maximum sizes of the auxiliary headers of h, in their order
MaxSizes(h) == [i \in 1 .. p_get_num_aux(h) |-> p_get_aux_max_size(h, i - 1)]

RECURSIVE SumBefore(_, _)
\* the sum of (max_size + 8) over the first n of the sizes that are above 0
SumBefore(sizes, n) ==
    IF n = 0 THEN 0
    ELSE SumBefore(sizes, n - 1) + (IF sizes[n] > 0 THEN sizes[n] + 8 ELSE 0)

\* the data of the headers i and j of the sizes do not overlap
Apart(sizes, i, j) ==
    \/ SumBefore(sizes, i) <= SumBefore(sizes, j - 1)
    \/ SumBefore(sizes, j) <= SumBefore(sizes, i - 1)

\* the data of every auxiliary header lies where the sum of those before
\* it ends, apart from the data of the others and within the records of
\* the auxiliary data
DataPlaced(h) ==
    \E sizes \in {MaxSizes(h)} :
        \A i \in 1 .. Len(sizes) :
            /\ p_aux_get_data_offset(h.aux_hdrs, i - 1) = SumBefore(sizes, i - 1)
            /\ SumBefore(sizes, i) <= AuxRegion(h)
            /\ \A j \in 1 .. Len(sizes) :
                  (i # j /\ sizes[i] > 0 /\ sizes[j] > 0) => Apart(sizes, i, j)

\* the accesses acc that read or write, in order
Transfers(acc) == SelectSeq(acc, LAMBDA a : a.call \in {"read", "write"})

\* the last call is a p_write_aux that wrote
AuxWritten ==
    /\ op.name = "p_write_aux"
    /\ status = "P_OK"
    /\ op.args.size > 0

\* the last call is a p_read_aux that read from the file
AuxWasRead ==
    /\ op.name = "p_read_aux"
    /\ Transfers(accesses) # << >>

\* the transfers of a p_write_aux or p_read_aux of size bytes: the length
\* of 8 bytes, then the data, from the offset of image n and of the header
\* aux_id on, and all before the first component of the image
InPlace(h, call, n, aux_id, size) ==
    \E sizes \in {MaxSizes(h)}, at \in {ImageOffset(h, n)} :
        /\ size <= sizes[aux_id + 1]
        /\ Transfers(accesses)
            = << Access(call, at + SumBefore(sizes, aux_id), 8) >>
              \o (IF size > 0
                  THEN << Access(call, at + SumBefore(sizes, aux_id) + 8,
                                 size) >>
                  ELSE << >>)
        /\ at + SumBefore(sizes, aux_id) + 8 + size <= at + AuxRegion(h)
        /\ at + AuxRegion(h) = ComponentOffset(h, n, 0)

\* C25: the auxiliary data of header id of image n lies at the offset of
\* the image plus the sum of (max_size + 8) over the headers before id
\* with max_size above 0; headers with max_size 0 take no space in an
\* image, the data of two headers of an image never overlap, and a write
\* of at most max_size bytes, and the read of it, stay within the records
\* of the auxiliary data of the image, before its first component.
C25_AuxDataInPlace ==
    /\ DataPlaced(header)
    /\ AuxWritten
        => InPlace(header, "write", AuxImage(op.args.frame, op.args.field),
                   op.args.aux_id, op.args.size)
    /\ AuxWasRead
        => InPlace(header, "read", AuxImage(op.args.frame, op.args.field),
                   op.args.aux_id, result)

\* 505 bytes were written for the third auxiliary header, behind the 12
\* bytes of the first: the second has no data in an image
C25_Witness ==
    /\ op.name = "p_write_aux"
    /\ status = "P_OK"
    /\ op.args.aux_id = 2
    /\ op.args.size = 505
    /\ p_get_aux_max_size(header, 0) = 4
    /\ p_get_aux_max_size(header, 1) = 0
    /\ op.args.field = 0
    /\ Transfers(accesses)[1].offset = ImageOffset(header, op.args.frame) + 12
    /\ header.nr_aux_data_recs = 2

----------------------------------------------------------------------------
(* The frames of an interlaced file and its fields: properties of Spec     *)

\* the buffers a.bufs, each n elements further on
Further(a, n) == [i \in 1..3 |-> Advance(a.bufs[i], n)]

\* p_read_field of field 1 with half the lines at twice the stride, then,
\* when that gave P_OK, of field 2 from a stride further on
ReadAsFields(w, h, a) ==
    LET first == p_read_field(w, TheFile, h, a.frame, 1, a.bufs, a.mode,
                     a.width, a.height \div 2, 2 * a.stride)
    IN  IF first.status # "P_OK" THEN first
        ELSE MergeRead(first,
                p_read_field(first.w, TheFile, h, a.frame, 2,
                    Further(a, a.stride), a.mode, a.width, a.height \div 2,
                    2 * a.stride))

WriteAsFields(w, h, a) ==
    LET first == p_write_field(w, TheFile, h, a.frame, 1, a.bufs, a.width,
                     a.height \div 2, 2 * a.stride)
    IN  IF first.status # "P_OK" THEN first
        ELSE p_write_field(first.w, TheFile, h, a.frame, 2,
                 Further(a, a.stride), a.width, a.height \div 2, 2 * a.stride)

\* one access of the lines of a frame, after the checks of p_read_frame and
\* p_write_frame
ReadAtOnce(w, h, a) ==
    IF Checks(h, p_check_multi_or_stream(p_get_color_format(h))) # "P_OK"
    THEN NoRead(Checks(h, p_check_multi_or_stream(p_get_color_format(h))), w)
    ELSE p_read_buffers(w, TheFile, h, p_get_color_format(h), a.frame, 0,
             P_NORMAL_COMP, FALSE, a.bufs, "P_UNSIGNED_CHAR", a.mode, a.width,
             a.height, << a.stride, a.stride, a.stride >>)

WriteAtOnce(w, h, a) ==
    IF Checks(h, p_check_multi_or_stream(p_get_color_format(h))) # "P_OK"
    THEN NoWrite(Checks(h, p_check_multi_or_stream(p_get_color_format(h))), w)
    ELSE p_write_buffers(w, TheFile, h, p_get_color_format(h), a.frame, 0,
             P_NORMAL_COMP, FALSE, a.bufs, "P_UNSIGNED_CHAR", a.mode, a.width,
             a.height, << a.stride, a.stride, a.stride >>)

\* the call made left the status, the file and its accesses of r
SameAccesses(r) ==
    /\ status' = r.status
    /\ accesses' = r.w.acc
    /\ disk' = r.w.disk
    /\ p_files' = r.w.p_files

\* C26: on an interlaced header p_read_frame and p_write_frame of height H
\* and stride S access the bytes of the file and the elements of the
\* memory that the access of field 1 from the start of the buffers with
\* height H / 2 and stride 2 * S and then that of field 2 from S elements
\* further on with height H / 2 and stride 2 * S access; on a progressive
\* header they make one access of height H and stride S.
C26_FrameAsFields ==
    [][/\ op'.name = "p_read_frame"
            => IF p_is_interlaced(header) # 0
               THEN /\ SameAccesses(ReadAsFields(W, header, op'.args))
                    /\ membuf' = ReadAsFields(W, header, op'.args).mem
               ELSE /\ SameAccesses(ReadAtOnce(W, header, op'.args))
                    /\ membuf' = ReadAtOnce(W, header, op'.args).mem
       /\ op'.name = "p_write_frame"
            => IF p_is_interlaced(header) # 0
               THEN SameAccesses(WriteAsFields(W, header, op'.args))
               ELSE SameAccesses(WriteAtOnce(W, header, op'.args))]_vars

\* a frame of an interlaced file was read into buffers of a stride of 6:
\* line 1 of the frame lies at element 6 and is line 0 of field 2
C26_Witness ==
    /\ op.name = "p_read_frame"
    /\ status = "P_OK"
    /\ p_is_interlaced(header) # 0
    /\ op.args.stride = 6
    /\ << 0, 6 >> \in DOMAIN membuf
    /\ << 0, 12 >> \in DOMAIN membuf
    /\ << 0, 4 >> \notin DOMAIN membuf
    /\ Len(SelectSeq(accesses, LAMBDA x : x.call = "read")) >= 4

----------------------------------------------------------------------------
(* The lines of a component in memory and in the file: properties of Spec  *)

\* the last call read or wrote one image: a field of an interlaced file or
\* a frame of a progressive one, as bytes
ReadOneImage ==
    /\ op.name \in {"p_read_field", "p_read_frame"}
    /\ status = "P_OK"
    /\ op.args.field > 0 <=> header.interlace = 2
WroteOneImage ==
    /\ op.name \in {"p_write_field", "p_write_frame"}
    /\ status = "P_OK"
    /\ op.args.field > 0 <=> header.interlace = 2

\* w and h, the width and the height of the call clamped to the component
ClampedWidth == MIN(op.args.width, header.comp[1].pix_line)
ClampedHeight == MIN(op.args.height, header.comp[1].lin_image)

\* sample x of line y of the first component of the image of the call in
\* the file; the files of Spec hold a byte per sample
SampleInFile(y, x) ==
    ByteAt(disk[TheFile],
           ComponentOffset(header,
               ImageOf(header, op.args.frame, op.args.field), 0)
           + y * header.comp[1].pix_line + x)

\* line y of the first buffer, from element y * stride on, holds the w
\* samples of line y of the file
RowsRead ==
    ReadOneImage
        => \A y \in 0 .. (ClampedHeight - 1), x \in 0 .. (ClampedWidth - 1) :
              /\ << 0, y * op.args.stride + x >> \in DOMAIN membuf
              /\ membuf[<< 0, y * op.args.stride + x >>] = SampleInFile(y, x)

\* line y of the file holds the w samples of the first buffer from element
\* y * stride on
RowsWritten ==
    WroteOneImage
        => \A y \in 0 .. (ClampedHeight - 1), x \in 0 .. (ClampedWidth - 1) :
              SampleInFile(y, x)
                = BufSample(op.args.bufs[1], "P_UNSIGNED_CHAR",
                            y * op.args.stride + x)

\* C27: in a read or write of a component with the width and the height
\* clamped to w = min(width, pix_line) and h = min(height, lin_image), line
\* y of the buffer, which starts at element y * stride, is the w samples of
\* the file from the offset of the component plus y * pix_line samples on,
\* for any stride of at least w, with and without conversion.
C27_RowsInPlace == RowsRead /\ RowsWritten

----------------------------------------------------------------------------
(* The number of images a close writes: properties of SpecFiles            *)

\* the number of images the header of file f declares; a file without a
\* header declares none
CountOnDisk(f) ==
    IF f.nr_images = << >> THEN 0
    ELSE p_parse_get_int(f.nr_images, 0, P_SNR_IMAGES)

\* the call made writes the header of file n, or creates the file
WritesHeaderOf(n) ==
    \/ op'.name = "p_write_hdr" /\ op'.args[1] = n
    \/ op'.name = "p_open_file" /\ op'.args[1] = n /\ op'.args[2] = 1

\* C28: the close of a file never lowers the number of images in its
\* header: the call made, unless it writes the header of the file or
\* creates the file, leaves the number of images at the start of the file
\* or writes a greater one, also when the file was closed for another file
\* or for another mode after its header was written.
C28_CountNeverLowered ==
    [][\A n \in DOMAIN disk :
          (~WritesHeaderOf(n) /\ disk'[n].nr_images # disk[n].nr_images)
                => CountOnDisk(disk'[n]) > CountOnDisk(disk[n])]_vars

----------------------------------------------------------------------------
(* The open files of a name: properties of SpecSlots                       *)

\* the slots of the table that hold an open file of the name
OpenSlotsOf(name) ==
    {i \in 1 .. P_MAX_OPEN_FILES :
        p_files.p_files[i].fp # 0 /\ p_files.p_files[i].name = name}

\* C29: after any calls that open files, with and without success, read,
\* write, close a file or all files, or close the least recently used
\* file for another, at most one slot of the table holds an open file of a
\* name.
C29_OneSlotPerName ==
    \A name \in DOMAIN disk : Cardinality(OpenSlotsOf(name)) <= 1

----------------------------------------------------------------------------
(* Progressive and interlaced headers: properties of SpecHeader            *)

\* the call made is p_mod_to_progressive on an interlaced header that
\* passes p_check_header
MadeProgressive ==
    /\ op'.name = "p_mod_to_progressive"
    /\ p_is_interlaced(header) # 0
    /\ p_check_header(header) = "P_OK"

\* the call made is p_mod_to_interlaced on a progressive header of an even
\* number of lines that passes p_check_header
MadeInterlaced ==
    /\ op'.name = "p_mod_to_interlaced"
    /\ p_is_progressive(header) # 0
    /\ p_get_frame_height(header) % 2 = 0
    /\ p_check_header(header) = "P_OK"

\* C30: p_mod_to_progressive on an interlaced header that passes
\* p_check_header, and p_mod_to_interlaced on a progressive header of an
\* even number of lines that passes it, leave a header that passes
\* p_check_header, also when the header has extra components.
C30_StillChecked ==
    [][(MadeProgressive \/ MadeInterlaced)
            => p_check_header(header') = "P_OK"]_vars

====
